---- MODULE Spec2Model ----
(***************************************************************************)
(* Model of the document processor of file_big_ia:                         *)
(*   src/src/lib/processor/processor.py   DocumentProcessor                *)
(*   src/src/settings.py                  BYTES_THRESHOLD, MAX_CONTEXT_CHARS*)
(*                                                                         *)
(* One behaviour of Spec is one call of DocumentProcessor.process on a     *)
(* list of files.  A step is the code one asyncio task runs between two    *)
(* suspension points (waiting for the semaphore, waiting for the analysis  *)
(* agent, waiting for gather); listener hooks, the default no-ops of       *)
(* events.py, run inside the step that notifies them and may raise.        *)
(* The environment chooses the file sizes, what the splitter returns, what *)
(* the agent answers or whether it fails, and which hook raises.           *)
(***************************************************************************)
EXTENDS Integers, Sequences, FiniteSets, Bags, TLC

-----------------------------------------------------------------------------
(* Bounds of the model *)

(* a call with one file *)
MaxChunks == 3
MaxWorkers == 2
MaxListeners == 2
MaxEvents == 2
MaxHookFailures == 1
(* a call with several files *)
MaxFiles == 2
MultiChunks == 2
MultiWorkers == 1
MultiListeners == 1
MultiEvents == 2

(* the splitters: pages of a PDF, sheets of a workbook *)
MaxPages == 4
MaxSheets == 5

(* Program constants *)

TARGET_LIMIT_BYTES == 4194304

BYTES_THRESHOLD == 4300000
MAX_CONTEXT_CHARS == 150000

-----------------------------------------------------------------------------
(* Texts.  A text is a sequence of runs [ch, n]: n characters ch.  Adjacent *)
(* runs of the same character are merged, so equal texts are equal values.  *)

Run(c, k) == [ch |-> c, n |-> k]

RECURSIVE TextLen(_)
TextLen(t) == IF t = <<>> THEN 0 ELSE Head(t).n + TextLen(Tail(t))

TextConcat(a, b) ==
    IF a = <<>> THEN b
    ELSE IF b = <<>> THEN a
    ELSE IF a[Len(a)].ch = b[1].ch
         THEN SubSeq(a, 1, Len(a) - 1)
                \o <<Run(b[1].ch, a[Len(a)].n + b[1].n)>>
                \o Tail(b)
         ELSE a \o b

(* t[:k] *)
RECURSIVE TextTake(_, _)
TextTake(t, k) ==
    IF k <= 0 \/ t = <<>> THEN <<>>
    ELSE IF Head(t).n >= k THEN <<Run(Head(t).ch, k)>>
    ELSE <<Head(t)>> \o TextTake(Tail(t), k - Head(t).n)

(* sep.join(ts) *)
RECURSIVE TextJoin(_, _)
TextJoin(ts, sep) ==
    IF ts = <<>> THEN <<>>
    ELSE IF Len(ts) = 1 THEN ts[1]
    ELSE TextConcat(TextConcat(ts[1], sep), TextJoin(Tail(ts), sep))

ChunkSeparator == <<Run("\n", 2)>>
TruncationMarker == <<Run("\n", 1), Run("... [TRUNCATED]", 15)>>

(* What the agent may answer for one chunk: a short text or a long one;    *)
(* two long ones joined are exactly MAX_CONTEXT_CHARS characters, anything *)
(* joined to them exceeds it.                                              *)
Texts == { <<Run("a", 3)>>, <<Run("b", 74998), Run("\n", 1)>> }

_consolidate_and_truncate_from_budget(responses) ==
    LET consolidated == TextJoin(responses, ChunkSeparator)
    IN  IF TextLen(consolidated) >= MAX_CONTEXT_CHARS
        THEN TextConcat(TextTake(consolidated, MAX_CONTEXT_CHARS), TruncationMarker)
        ELSE consolidated


_consolidate_and_truncate(responses) ==
    LET consolidated == TextJoin(responses, ChunkSeparator)
    IN  IF TextLen(consolidated) > MAX_CONTEXT_CHARS
        THEN TextConcat(TextTake(consolidated, MAX_CONTEXT_CHARS), TruncationMarker)
        ELSE consolidated

-----------------------------------------------------------------------------
(* Errors and listener events *)

NoErr == [type |-> "none", file |-> 0, chunk |-> 0, hook |-> "none"]
SplitErr(f) == [type |-> "split", file |-> f, chunk |-> 0, hook |-> "none"]
AnalysisErr(f, i) == [type |-> "analysis", file |-> f, chunk |-> i, hook |-> "none"]
StreamErr(f) == [type |-> "stream", file |-> f, chunk |-> 0, hook |-> "none"]
(* raised by listener l's hook h; file is the listener here *)
HookErr(l, h) == [type |-> "hook", file |-> l, chunk |-> 0, hook |-> h]

Event(k, f, i, a, e) == [kind |-> k, file |-> f, chunk |-> i, arg |-> a, err |-> e]
EvProcessingStartOfOne(f, total) == Event("processing_start", f, 0, 1, NoErr)
EvProcessingStart(f, total) == Event("processing_start", f, 0, total, NoErr)
EvChunkStart(f, i) == Event("chunk_start", f, i, 0, NoErr)
EvChunkEnd(f, i) == Event("chunk_end", f, i, 0, NoErr)
EvProcessingEnd(f) == Event("processing_end", f, 0, 0, NoErr)
EvError(e) == Event("error", 0, 0, 0, e)
EvSummaryStart == Event("summary_start", 0, 0, 0, NoErr)
EvSummaryEnd == Event("summary_end", 0, 0, 0, NoErr)

-----------------------------------------------------------------------------
VARIABLES
    numFiles,      \* len(files) of this call
    listeners,     \* number of registered listeners (self.listeners, in order)
    max_workers,   \* self.max_workers
    callPc,        \* process(): "gather", "summary", "done", "failed"
    callGather,    \* the exception the gather of process() holds, or NoErr
    callError,     \* the exception the caller of process() received
    summaryContent,\* the content list of the cross-file request
    callTrace,     \* what process() did after gather, in order: "summary_start",
                   \*   "stream_async", "event" (one per stream event), "summary_end"
    output,        \* the fragments process() has yielded to its caller
    fileSize,      \* len(file_bytes) per file, 0 before the file is read
    filePc,        \* per file: "not_started", "direct", "gather", "stream",
                   \*           "completed", "failed"
    finished,      \* the files whose _process_file has ended normally, in the
                   \*   order in which they ended
    path,          \* per file: the sequence of paths run ("direct", "chunked")
    fileError,     \* per file: the exception _process_file raised
    collected,     \* per file: the fragments _process_file has yielded
    streamed,      \* per file: the events its agent stream has produced
    fileTrace,     \* per file: what _process or _process_big did, in order:
                   \*   "processing_start", "stream_async", "event", "processing_end",
                   \*   "error" (_notify_error called by _process)
    gathered,      \* per file: results of _process_big after the sort
    context,       \* per file: consolidated_context of the final payload
    chunkPc,       \* per file and chunk: "new", "waiting", "invoking", "done", "failed"
    chunkResult,   \* per file and chunk: the tuple _process_chunk returned
    chunkError,    \* per file and chunk: the exception _process_chunk raised
    invoked,       \* per file and chunk: number of agent.invoke_async calls
    semaphore,     \* per file: [value, waiters] of asyncio.Semaphore
    gatherExc,     \* per file: the exception the gather of _process_big holds, or NoErr
    outOfOrder,    \* per file: a task ended before a task of a lower chunk number
    notified,      \* bag of events the _notify_* methods were called with
    hookCalls,     \* bag of [listener, event]: listener hooks called
    agentFailed,   \* the errors the analysis agent has raised
    chunksLeft,    \* chunks the splitters may still return in this call
    hookFailures,  \* number of listener hooks that have raised
    eventsLeft,    \* stream events the agent may still produce in this call
    pdf_file,      \* split_pdf's input: [len, valid, pages]; pages are the sizes
                   \*   the pages take in a saved document
    pdfPc,         \* split_pdf: "called", "loop", "returned", "raised"
    current_page,  \* split_pdf: first page not yet emitted
    batch_size,    \* split_pdf: pages of the next tentative batch
    pdf_chunks,    \* split_pdf: the blobs appended to chunks (returned at the end)
    pdf_log,       \* split_pdf: logger calls, in order
    xlsx_file,     \* split_xlsx's input: [len, valid, sheets]; sheets are the sizes
                   \*   the sheets take in a saved workbook, in sheet_names order
    xlsxPc,        \* split_xlsx: "called", "loop", "returned", "raised"
    sheet_index,   \* split_xlsx: sheets of sheet_names the for loop has taken
    current_sheets,         \* split_xlsx: sheets of the group being built
    current_size_estimate,  \* split_xlsx: sum of their estimated sizes
    xlsx_chunks,   \* split_xlsx: the blobs appended to chunks
    xlsx_log,      \* split_xlsx: logger calls, in order
    file_path,     \* get_handler's input: [suffix], file_path.suffix as a sequence
                   \*   of characters ("" when the name has no extension)
    handlerPc,     \* get_handler: "called", "returned"; "split" after handler.split
    handler,       \* the handler get_handler returned: [class, format, split]
    file_bytes,    \* the bytes given to handler.split
    handler_chunks \* what handler.split returned

cfgVars == <<numFiles, listeners, max_workers>>
callVars == <<callPc, callGather, callError, summaryContent, callTrace, output>>
fileVars == <<fileSize, filePc, finished, path, fileError, collected, streamed, fileTrace, gathered, context>>
chunkVars == <<chunkPc, chunkResult, chunkError, invoked, semaphore, gatherExc, outOfOrder>>
logVars == <<notified, hookCalls, hookFailures>>
envVars == <<agentFailed, chunksLeft, eventsLeft>>
pdfVars == <<pdf_file, pdfPc, current_page, batch_size, pdf_chunks, pdf_log>>
xlsxVars == <<xlsx_file, xlsxPc, sheet_index, current_sheets, current_size_estimate,
              xlsx_chunks, xlsx_log>>
handlerVars == <<file_path, handlerPc, handler, file_bytes, handler_chunks>>
splitVars == <<pdfVars, xlsxVars, handlerVars>>
procVars == <<cfgVars, callVars, fileVars, chunkVars, logVars, envVars>>
vars == <<procVars, splitVars>>

Files == 1..numFiles
Chunks(f) == DOMAIN chunkPc[f]


-----------------------------------------------------------------------------
(* Listener notification: every _notify_* method loops over self.listeners  *)
(* in registration order and awaits the hook.  k is the first listener      *)
(* whose hook raises (0: none does); the loop ends there.                   *)

Log == [n |-> notified, h |-> hookCalls, raised |-> hookFailures]

_notify(log, ev, k) ==
    LET called == IF k = 0 THEN 1..listeners ELSE 1..k
    IN  [n |-> log.n (+) SetToBag({ev}),
         h |-> log.h (+) SetToBag({[listener |-> l, event |-> ev] : l \in called}),
         raised |-> log.raised + (IF k = 0 THEN 0 ELSE 1)]

(* The choices of k: a hook may raise while the bound allows. *)
Raising(log) == IF log.raised < MaxHookFailures THEN 0..listeners ELSE {0}

Count(bag, x) == IF x \in DOMAIN bag THEN bag[x] ELSE 0

-----------------------------------------------------------------------------
(* asyncio.Semaphore as _process_big creates it and _process_chunk uses it: *)
(* a counter and a FIFO of waiters; a release hands the slot to the first   *)
(* waiter not yet woken, which runs again in a later step.                  *)

Semaphore(value) == [value |-> value, waiters |-> <<>>]

NewSemaphoreOffByOne == Semaphore(max_workers + 1)

(* asyncio.Semaphore(self.max_workers) *)
NewSemaphore == Semaphore(max_workers)

Locked(s) == s.value = 0 \/ s.waiters # <<>>

Pending(s) == {j \in 1..Len(s.waiters) : ~s.waiters[j].done}

WakeUpNext(s) ==
    IF Pending(s) = {} THEN s
    ELSE LET j == CHOOSE x \in Pending(s) : \A y \in Pending(s) : x <= y
         IN  [value |-> s.value - 1,
              waiters |-> [s.waiters EXCEPT ![j].done = TRUE]]

Acquired(s) == [s EXCEPT !.value = @ - 1]

Enqueued(s, i) == [s EXCEPT !.waiters = Append(@, [task |-> i, done |-> FALSE])]

Woken(s, i) == \E j \in 1..Len(s.waiters) : s.waiters[j] = [task |-> i, done |-> TRUE]

RECURSIVE WakeWhileFree(_)
WakeWhileFree(s) ==
    IF s.value > 0 /\ Pending(s) # {} THEN WakeWhileFree(WakeUpNext(s)) ELSE s

Resumed(s, i) ==
    WakeWhileFree([s EXCEPT !.waiters = SelectSeq(@, LAMBDA w : w.task # i)])

Released(s) == WakeUpNext([s EXCEPT !.value = @ + 1])

-----------------------------------------------------------------------------
(* Pure helpers of the orchestrator *)

(* len(file_bytes) > BYTES_THRESHOLD *)
UsesProcessBigInclusive(size) == size >= BYTES_THRESHOLD

UsesProcessBigOverFourMillion(size) == size > 4000000

UsesProcessBig(size) == size > BYTES_THRESHOLD

SortKeyDescending(x) == 0 - x[1]

(* key=lambda x: x[0]; a result is <<chunk_number, text>> *)
SortKey(x) == x[1]

(* list.sort(key=...): stable, ascending *)
RECURSIVE Insert(_, _)
Insert(sorted, x) ==
    IF sorted = <<>> THEN <<x>>
    ELSE IF SortKey(x) < SortKey(Head(sorted)) THEN <<x>> \o sorted
    ELSE <<Head(sorted)>> \o Insert(Tail(sorted), x)

RECURSIVE Sort(_)
Sort(rs) == IF rs = <<>> THEN <<>> ELSE Insert(Sort(SubSeq(rs, 1, Len(rs) - 1)), rs[Len(rs)])

(* An event of agent.stream_async: a dict; keys are the keys it has. *)
StreamEvents ==
    { [keys |-> {"data"}, data |-> "x"],
      [keys |-> {"message"}, data |-> ""],
      [keys |-> {"data", "message"}, data |-> "z"],
      [keys |-> {"event"}, data |-> ""] }

FragmentWithoutElif(ev) ==
    (IF "data" \in ev.keys THEN <<ev.data>> ELSE <<>>)
        \o (IF "message" \in ev.keys THEN <<"\n">> ELSE <<>>)

(* if "data" in event: yield str(event["data"]); elif "message" in event: yield "\n" *)
Fragment(ev) ==
    IF "data" \in ev.keys THEN <<ev.data>>
    ELSE IF "message" \in ev.keys THEN <<"\n">>
    ELSE <<>>

(* "".join(data): the fragments are single characters *)
JoinFragments(data) == data

FileSizes == {BYTES_THRESHOLD, BYTES_THRESHOLD + 1}


-----------------------------------------------------------------------------
(* The state when process(files, question) is called: the processor was    *)
(* constructed with max_workers and add_listener was called for each        *)
(* listener.  chunks and events bound what the environment produces.        *)
InitCall(nfiles, nlisteners, workers, chunks, events) ==
    /\ numFiles \in nfiles
    /\ listeners \in nlisteners
    /\ max_workers \in workers
    /\ chunksLeft = chunks
    /\ eventsLeft = events
    /\ callPc = "running"
    /\ callGather = NoErr
    /\ callError = NoErr
    /\ summaryContent = <<>>
    /\ callTrace = <<>>
    /\ output = <<>>
    /\ fileSize = [f \in Files |-> 0]
    /\ filePc = [f \in Files |-> "not_started"]
    /\ finished = <<>>
    /\ path = [f \in Files |-> <<>>]
    /\ fileError = [f \in Files |-> NoErr]
    /\ collected = [f \in Files |-> <<>>]
    /\ streamed = [f \in Files |-> <<>>]
    /\ fileTrace = [f \in Files |-> <<>>]
    /\ gathered = [f \in Files |-> <<>>]
    /\ context = [f \in Files |-> <<>>]
    /\ chunkPc = [f \in Files |-> <<>>]
    /\ chunkResult = [f \in Files |-> <<>>]
    /\ chunkError = [f \in Files |-> <<>>]
    /\ invoked = [f \in Files |-> <<>>]
    /\ semaphore = [f \in Files |-> Semaphore(0)]
    /\ gatherExc = [f \in Files |-> NoErr]
    /\ outOfOrder = [f \in Files |-> FALSE]
    /\ notified = EmptyBag
    /\ hookCalls = EmptyBag
    /\ agentFailed = {}
    /\ hookFailures = 0

(* no splitter call is under way *)
NoPdf ==
    /\ pdf_file = [len |-> 0, valid |-> TRUE, pages |-> <<>>]
    /\ pdfPc = "idle"
    /\ current_page = 0
    /\ batch_size = 1
    /\ pdf_chunks = <<>>
    /\ pdf_log = <<>>

NoXlsx ==
    /\ xlsx_file = [len |-> 0, valid |-> TRUE, sheets |-> <<>>]
    /\ xlsxPc = "idle"
    /\ sheet_index = 0
    /\ current_sheets = <<>>
    /\ current_size_estimate = 0
    /\ xlsx_chunks = <<>>
    /\ xlsx_log = <<>>

NoFile == <<>>
NoHandler ==
    /\ file_path = [suffix |-> <<>>]
    /\ handlerPc = "idle"
    /\ handler = [class |-> "none", format |-> <<>>, split |-> "none"]
    /\ file_bytes = NoFile
    /\ handler_chunks = <<>>

NoSplit == NoPdf /\ NoXlsx /\ NoHandler

Init == InitCall({1}, 0..MaxListeners, 1..MaxWorkers, MaxChunks, MaxEvents) /\ NoSplit

InitMulti ==
    InitCall(2..MaxFiles, 0..MultiListeners, 1..MultiWorkers, MultiChunks, MultiEvents) /\ NoSplit

(* a call with any number of files, one included *)
InitAny ==
    InitCall(1..MaxFiles, 0..MultiListeners, 1..MultiWorkers, MultiChunks, MultiEvents) /\ NoSplit

-----------------------------------------------------------------------------
(* How the end of one file's _process_file reaches process().  With one     *)
(* file process() iterates it directly; otherwise _collect_file_content is  *)
(* one of the tasks of gather, which keeps the first exception.             *)

IteratesNoFile == FALSE

(* if len(files) == 1: process() iterates the file's own generator *)
IteratesSingleFile == numFiles = 1

FileRaises(f, e) ==
    /\ filePc' = [filePc EXCEPT ![f] = "failed"]
    /\ finished' = finished
    /\ fileError' = [fileError EXCEPT ![f] = e]
    /\ IF IteratesSingleFile
       THEN /\ callPc' = "failed"
            /\ callError' = e
            /\ UNCHANGED callGather
       ELSE /\ callGather' = IF callGather = NoErr THEN e ELSE callGather
            /\ UNCHANGED <<callPc, callError>>

FileCompletes(f) ==
    /\ filePc' = [filePc EXCEPT ![f] = "completed"]
    /\ finished' = Append(finished, f)
    /\ callPc' = IF IteratesSingleFile THEN "done" ELSE callPc
    /\ UNCHANGED <<fileError, callError, callGather>>

FileGoes(f, pc) ==
    /\ filePc' = [filePc EXCEPT ![f] = pc]
    /\ finished' = finished
    /\ UNCHANGED <<fileError, callPc, callError, callGather>>

(* yield chunk: to the caller of process() with one file, to the data list  *)
(* of _collect_file_content otherwise                                       *)
FileYields(f, frag) ==
    /\ collected' = [collected EXCEPT ![f] = @ \o frag]
    /\ output' = IF IteratesSingleFile THEN output \o frag ELSE output

Traced(f, steps) == fileTrace' = [fileTrace EXCEPT ![f] = @ \o steps]

SetLog(log) ==
    /\ notified' = log.n
    /\ hookCalls' = log.h
    /\ hookFailures' = log.raised

-----------------------------------------------------------------------------
(* _process: the direct path, up to the first event of the stream *)
_process(f) ==
    \E k \in Raising(Log) :
        /\ SetLog(_notify(Log, EvProcessingStart(f, 1), k))
        /\ path' = [path EXCEPT ![f] = Append(@, "direct")]
        /\ IF k # 0
           THEN /\ FileRaises(f, HookErr(k, "processing_start"))
                /\ Traced(f, <<"processing_start">>)
           ELSE /\ FileGoes(f, "direct")
                /\ Traced(f, <<"processing_start", "stream_async">>)
        /\ UNCHANGED <<gathered, context, chunkVars>>

(* _process_big: split, notify, create the semaphore and the tasks, and     *)
(* wait in gather.  The splitter returns n blobs or raises.                 *)
_process_big(f) ==
    /\ path' = [path EXCEPT ![f] = Append(@, "chunked")]
    /\ UNCHANGED <<gathered, context, gatherExc, outOfOrder>>
    /\ \/ /\ FileRaises(f, SplitErr(f))
          /\ UNCHANGED <<fileTrace, logVars, chunkPc, chunkResult, chunkError, invoked, semaphore>>
       \/ \E n \in 0..chunksLeft, k \in Raising(Log) :
            /\ SetLog(_notify(Log, EvProcessingStart(f, n), k))
            /\ Traced(f, <<"processing_start">>)
            /\ IF k # 0
               THEN /\ FileRaises(f, HookErr(k, "processing_start"))
                    /\ UNCHANGED <<chunkPc, chunkResult, chunkError, invoked, semaphore>>
               ELSE /\ FileGoes(f, "gather")
                    /\ semaphore' = [semaphore EXCEPT ![f] = NewSemaphore]
                    /\ chunkPc' = [chunkPc EXCEPT ![f] = [i \in 1..n |-> "new"]]
                    /\ chunkResult' = [chunkResult EXCEPT ![f] = [i \in 1..n |-> <<>>]]
                    /\ chunkError' = [chunkError EXCEPT ![f] = [i \in 1..n |-> NoErr]]
                    /\ invoked' = [invoked EXCEPT ![f] = [i \in 1..n |-> 0]]

(* _process_file: read the bytes and run one of the two paths *)
_process_file(f) ==
    /\ filePc[f] = "not_started"
    /\ \E size \in FileSizes :
        /\ fileSize' = [fileSize EXCEPT ![f] = size]
        /\ IF UsesProcessBig(size) THEN _process_big(f) ELSE _process(f)
    /\ chunksLeft' = chunksLeft - Len(chunkPc'[f])
    /\ UNCHANGED <<cfgVars, summaryContent, callTrace, output,
                   collected, streamed, agentFailed, eventsLeft>>


-----------------------------------------------------------------------------
OnExceptionTwice(log, e, k) ==
    [log |-> _notify(_notify(log, EvError(e), 0), EvError(e), k),
     raised |-> IF k # 0 THEN HookErr(k, "error") ELSE e]

(* except Exception as e: await self._notify_error(e); raise e              *)
(* k is the first listener whose on_error raises (0: none): its exception   *)
(* leaves the except block in place of e.                                   *)
OnException(log, e, k) ==
    [log |-> _notify(log, EvError(e), k),
     raised |-> IF k # 0 THEN HookErr(k, "error") ELSE e]

(* Task i of file f ends while a task of a lower chunk number has not *)
EndsOutOfOrder(f, i) == \E j \in Chunks(f) : j < i /\ chunkPc[f][j] \notin {"done", "failed"}

(* the slot is kept when the task ends with an exception *)
ChunkRaisesHoldingSlot(f, i, e, s) ==
    /\ chunkPc' = [chunkPc EXCEPT ![f][i] = "failed"]
    /\ chunkError' = [chunkError EXCEPT ![f][i] = e]
    /\ semaphore' = [semaphore EXCEPT ![f] = s]
    /\ gatherExc' = [gatherExc EXCEPT ![f] = IF @ = NoErr THEN e ELSE @]
    /\ outOfOrder' = [outOfOrder EXCEPT ![f] = @ \/ EndsOutOfOrder(f, i)]
    /\ UNCHANGED chunkResult

(* A chunk task ends with an exception: the slot is released on leaving     *)
(* "async with", and gather keeps the first exception of its tasks.         *)
ChunkRaises(f, i, e, s) ==
    /\ chunkPc' = [chunkPc EXCEPT ![f][i] = "failed"]
    /\ chunkError' = [chunkError EXCEPT ![f][i] = e]
    /\ semaphore' = [semaphore EXCEPT ![f] = Released(s)]
    /\ gatherExc' = [gatherExc EXCEPT ![f] = IF @ = NoErr THEN e ELSE @]
    /\ outOfOrder' = [outOfOrder EXCEPT ![f] = @ \/ EndsOutOfOrder(f, i)]
    /\ UNCHANGED chunkResult

ResultUnnumbered(chunk_number, response) == <<1, response>>

(* (chunk_number, str(response)) *)
Result(chunk_number, response) == <<chunk_number, response>>

(* return (chunk_number, str(response)) *)
ChunkReturns(f, i, text, s) ==
    /\ chunkPc' = [chunkPc EXCEPT ![f][i] = "done"]
    /\ chunkResult' = [chunkResult EXCEPT ![f][i] = Result(i, text)]
    /\ semaphore' = [semaphore EXCEPT ![f] = Released(s)]
    /\ outOfOrder' = [outOfOrder EXCEPT ![f] = @ \/ EndsOutOfOrder(f, i)]
    /\ UNCHANGED <<chunkError, gatherExc>>

(* Inside "async with semaphore", holding a slot (s is the semaphore after  *)
(* the acquire): notify chunk-start, then call the agent.                   *)
ChunkEnters(f, i, s) ==
    \E k \in Raising(Log) :
        /\ SetLog(_notify(Log, EvChunkStart(f, i), k))
        /\ IF k # 0
           THEN /\ ChunkRaises(f, i, HookErr(k, "chunk_start"), s)
                /\ UNCHANGED invoked
           ELSE /\ chunkPc' = [chunkPc EXCEPT ![f][i] = "invoking"]
                /\ invoked' = [invoked EXCEPT ![f][i] = @ + 1]
                /\ semaphore' = [semaphore EXCEPT ![f] = s]
                /\ UNCHANGED <<chunkResult, chunkError, gatherExc, outOfOrder>>

(* _process_chunk: the task starts and takes a slot, or waits for one *)
_process_chunk_acquire(f, i) ==
    /\ i \in Chunks(f)
    /\ chunkPc[f][i] = "new"
    /\ IF ~Locked(semaphore[f])
       THEN ChunkEnters(f, i, Acquired(semaphore[f]))
       ELSE /\ chunkPc' = [chunkPc EXCEPT ![f][i] = "waiting"]
            /\ semaphore' = [semaphore EXCEPT ![f] = Enqueued(@, i)]
            /\ UNCHANGED <<chunkResult, chunkError, invoked, gatherExc, outOfOrder, logVars>>
    /\ UNCHANGED <<cfgVars, callVars, fileVars, envVars>>

(* _process_chunk: a waiting task was handed a slot and runs again *)
_process_chunk_resume(f, i) ==
    /\ i \in Chunks(f)
    /\ chunkPc[f][i] = "waiting"
    /\ Woken(semaphore[f], i)
    /\ ChunkEnters(f, i, Resumed(semaphore[f], i))
    /\ UNCHANGED <<cfgVars, callVars, fileVars, envVars>>

(* _process_chunk: agent.invoke_async returns a response *)
_process_chunk_response(f, i) ==
    /\ i \in Chunks(f)
    /\ chunkPc[f][i] = "invoking"
    /\ \E text \in Texts, k \in Raising(Log) :
        LET log1 == _notify(Log, EvChunkEnd(f, i), k)
        IN  IF k = 0
            THEN /\ SetLog(log1)
                 /\ ChunkReturns(f, i, text, semaphore[f])
            ELSE \E k2 \in Raising(log1) :
                    LET x == OnException(log1, HookErr(k, "chunk_end"), k2)
                    IN  /\ SetLog(x.log)
                        /\ ChunkRaises(f, i, x.raised, semaphore[f])
    /\ UNCHANGED <<cfgVars, callVars, fileVars, invoked, envVars>>

(* chunk-end notified on the way out of a failed analysis as well *)
_process_chunk_error_with_end(f, i) ==
    /\ i \in Chunks(f)
    /\ chunkPc[f][i] = "invoking"
    /\ agentFailed' = agentFailed \cup {AnalysisErr(f, i)}
    /\ \E k \in Raising(Log) :
        LET x == OnException(_notify(Log, EvChunkEnd(f, i), 0), AnalysisErr(f, i), k)
        IN  /\ SetLog(x.log)
            /\ ChunkRaises(f, i, x.raised, semaphore[f])
    /\ UNCHANGED <<cfgVars, callVars, fileVars, invoked, chunksLeft, eventsLeft>>

(* _process_chunk: agent.invoke_async raises *)
_process_chunk_error(f, i) ==
    /\ i \in Chunks(f)
    /\ chunkPc[f][i] = "invoking"
    /\ agentFailed' = agentFailed \cup {AnalysisErr(f, i)}
    /\ \E k \in Raising(Log) :
        LET x == OnException(Log, AnalysisErr(f, i), k)
        IN  /\ SetLog(x.log)
            /\ ChunkRaises(f, i, x.raised, semaphore[f])
    /\ UNCHANGED <<cfgVars, callVars, fileVars, invoked, chunksLeft, eventsLeft>>


-----------------------------------------------------------------------------
(* _process_big after gather returned every task's result: sort, notify    *)
(* processing-end, consolidate and issue the consolidation request.         *)
_process_big_gathered(f) ==
    /\ filePc[f] = "gather"
    /\ gatherExc[f] = NoErr
    /\ \A i \in Chunks(f) : chunkPc[f][i] = "done"
    /\ LET results == [i \in 1..Len(chunkPc[f]) |-> chunkResult[f][i]]
           sorted == Sort(results)
           responses_from_chunks == [j \in 1..Len(sorted) |-> sorted[j][2]]
       IN  \E k \in Raising(Log) :
            /\ SetLog(_notify(Log, EvProcessingEnd(f), k))
            /\ IF k # 0
               THEN /\ FileRaises(f, HookErr(k, "processing_end"))
                    /\ Traced(f, <<"processing_end">>)
                    /\ UNCHANGED context
               ELSE /\ FileGoes(f, "consolidation")
                    /\ Traced(f, <<"processing_end", "stream_async">>)
                    /\ context' = [context EXCEPT ![f] =
                                      _consolidate_and_truncate(responses_from_chunks)]
            /\ gathered' = [gathered EXCEPT ![f] = sorted]
    /\ UNCHANGED <<cfgVars, summaryContent, callTrace, output, fileSize, path,
                   collected, streamed, chunkVars, envVars>>

(* the tasks still pending are cancelled when gather raises *)
_process_big_raised_cancelling(f) ==
    /\ filePc[f] = "gather"
    /\ gatherExc[f] # NoErr
    /\ FileRaises(f, gatherExc[f])
    /\ chunkPc' = [chunkPc EXCEPT ![f] =
                      [i \in 1..Len(@) |-> IF @[i] = "done" THEN "done" ELSE "failed"]]
    /\ semaphore' = [semaphore EXCEPT ![f] = NewSemaphore]
    /\ UNCHANGED <<cfgVars, summaryContent, callTrace, output, fileSize, path,
                   collected, streamed, fileTrace, gathered, context,
                   chunkResult, chunkError, invoked, gatherExc, outOfOrder, logVars, envVars>>

(* _process_big when gather raises the first exception of its tasks *)
_process_big_raised(f) ==
    /\ filePc[f] = "gather"
    /\ gatherExc[f] # NoErr
    /\ FileRaises(f, gatherExc[f])
    /\ UNCHANGED <<cfgVars, summaryContent, callTrace, output, fileSize, path,
                   collected, streamed, fileTrace, gathered, context, chunkVars, logVars, envVars>>

(* One event of a file's stream (either path) is forwarded *)
StreamEvent(f) ==
    /\ eventsLeft > 0
    /\ \E ev \in StreamEvents :
        /\ streamed' = [streamed EXCEPT ![f] = Append(@, ev)]
        /\ FileYields(f, Fragment(ev))
    /\ Traced(f, <<"event">>)
    /\ eventsLeft' = eventsLeft - 1
    /\ UNCHANGED <<cfgVars, callPc, callGather, callError, summaryContent, callTrace,
                   fileSize, filePc, finished, path, fileError, gathered, context,
                   chunkVars, logVars, agentFailed, chunksLeft>>

_process_stream_event(f) ==
    /\ filePc[f] = "direct"
    /\ StreamEvent(f)

(* _process: the stream ends; processing-end is notified inside the try *)
_process_stream_end(f) ==
    /\ filePc[f] = "direct"
    /\ \E k \in Raising(Log) :
        LET log1 == _notify(Log, EvProcessingEnd(f), k)
        IN  IF k = 0
            THEN /\ SetLog(log1)
                 /\ Traced(f, <<"processing_end">>)
                 /\ FileCompletes(f)
            ELSE \E k2 \in Raising(log1) :
                    LET x == OnException(log1, HookErr(k, "processing_end"), k2)
                    IN  /\ SetLog(x.log)
                        /\ Traced(f, <<"processing_end", "error">>)
                        /\ FileRaises(f, x.raised)
    /\ UNCHANGED <<cfgVars, summaryContent, callTrace, output, fileSize, path,
                   collected, streamed, gathered, context, chunkVars, envVars>>

(* _process: the stream raises *)
_process_stream_error(f) ==
    /\ filePc[f] = "direct"
    /\ agentFailed' = agentFailed \cup {StreamErr(f)}
    /\ \E k \in Raising(Log) :
        LET x == OnException(Log, StreamErr(f), k)
        IN  /\ SetLog(x.log)
            /\ Traced(f, <<"error">>)
            /\ FileRaises(f, x.raised)
    /\ UNCHANGED <<cfgVars, summaryContent, callTrace, output, fileSize, path,
                   collected, streamed, gathered, context, chunkVars, chunksLeft, eventsLeft>>

_process_big_stream_event(f) ==
    /\ filePc[f] = "consolidation"
    /\ StreamEvent(f)

(* _process_big: the consolidation stream ends *)
_process_big_stream_end(f) ==
    /\ filePc[f] = "consolidation"
    /\ FileCompletes(f)
    /\ UNCHANGED <<cfgVars, summaryContent, callTrace, output, fileSize, path,
                   collected, streamed, fileTrace, gathered, context, chunkVars, logVars, envVars>>

(* _process_big: the consolidation stream raises; nothing catches it *)
_process_big_stream_error(f) ==
    /\ filePc[f] = "consolidation"
    /\ agentFailed' = agentFailed \cup {StreamErr(f)}
    /\ FileRaises(f, StreamErr(f))
    /\ UNCHANGED <<cfgVars, summaryContent, callTrace, output, fileSize, path,
                   collected, streamed, fileTrace, gathered, context, chunkVars, logVars, chunksLeft, eventsLeft>>

-----------------------------------------------------------------------------
(* await asyncio.gather of the file tasks returns: every task has returned *)
GatherReturnedSkippingFailed ==
    /\ \A f \in Files : filePc[f] \in {"completed", "failed"}
    /\ \E f \in Files : filePc[f] = "completed"

GatherReturnedOnFirstCompleted ==
    callGather = NoErr /\ \E f \in Files : filePc[f] = "completed"

GatherReturned == callGather = NoErr /\ \A f \in Files : filePc[f] = "completed"

ResultsAsCompleted == [j \in 1..Len(finished) |-> JoinFragments(collected[finished[j]])]

(* results = await asyncio.gather of the tasks: their return values in the  *)
(* order of the tasks, which is the order of files                          *)
Results == [f \in 1..numFiles |-> JoinFragments(collected[f])]

(* process() with several files, after gather returned every file's text   *)
process_gathered ==
    /\ ~IteratesSingleFile
    /\ callPc = "running"
    /\ GatherReturned
    /\ summaryContent' = Results
    /\ \E k \in Raising(Log) :
        /\ SetLog(_notify(Log, EvSummaryStart, k))
        /\ IF k # 0
           THEN /\ callPc' = "failed"
                /\ callError' = HookErr(k, "summary_start")
                /\ callTrace' = callTrace \o <<"summary_start">>
           ELSE /\ callPc' = "summary"
                /\ callTrace' = callTrace \o <<"summary_start", "stream_async">>
                /\ UNCHANGED callError
    /\ UNCHANGED <<cfgVars, callGather, output, fileVars, chunkVars, envVars>>

(* process() when gather raises the first exception of the file tasks *)
process_raised ==
    /\ ~IteratesSingleFile
    /\ callPc = "running"
    /\ callGather # NoErr
    /\ callPc' = "failed"
    /\ callError' = callGather
    /\ UNCHANGED <<cfgVars, callGather, summaryContent, callTrace, output,
                   fileVars, chunkVars, logVars, envVars>>

process_summary_event ==
    /\ callPc = "summary"
    /\ eventsLeft > 0
    /\ \E ev \in StreamEvents : output' = output \o Fragment(ev)
    /\ callTrace' = callTrace \o <<"event">>
    /\ eventsLeft' = eventsLeft - 1
    /\ UNCHANGED <<cfgVars, callPc, callGather, callError, summaryContent,
                   fileVars, chunkVars, logVars, agentFailed, chunksLeft>>

process_summary_end ==
    /\ callPc = "summary"
    /\ \E k \in Raising(Log) :
        /\ SetLog(_notify(Log, EvSummaryEnd, k))
        /\ callPc' = IF k # 0 THEN "failed" ELSE "done"
        /\ callError' = IF k # 0 THEN HookErr(k, "summary_end") ELSE callError
    /\ callTrace' = callTrace \o <<"summary_end">>
    /\ UNCHANGED <<cfgVars, callGather, summaryContent, output,
                   fileVars, chunkVars, envVars>>

process_summary_error ==
    /\ callPc = "summary"
    /\ agentFailed' = agentFailed \cup {StreamErr(0)}
    /\ callPc' = "failed"
    /\ callError' = StreamErr(0)
    /\ UNCHANGED <<cfgVars, callGather, summaryContent, callTrace, output,
                   fileVars, chunkVars, logVars, chunksLeft, eventsLeft>>

-----------------------------------------------------------------------------
(* The steps of one file's processing *)
NextFile ==
    \/ \E f \in Files : _process_file(f) /\ UNCHANGED splitVars
    \/ \E f \in Files : _process_stream_event(f) /\ UNCHANGED splitVars
    \/ \E f \in Files : _process_stream_end(f) /\ UNCHANGED splitVars
    \/ \E f \in Files : _process_stream_error(f) /\ UNCHANGED splitVars
    \/ \E f \in Files : \E i \in Chunks(f) : _process_chunk_acquire(f, i) /\ UNCHANGED splitVars
    \/ \E f \in Files : \E i \in Chunks(f) : _process_chunk_resume(f, i) /\ UNCHANGED splitVars
    \/ \E f \in Files : \E i \in Chunks(f) : _process_chunk_response(f, i) /\ UNCHANGED splitVars
    \/ \E f \in Files : \E i \in Chunks(f) : _process_chunk_error(f, i) /\ UNCHANGED splitVars
    \/ \E f \in Files : _process_big_gathered(f) /\ UNCHANGED splitVars
    \/ \E f \in Files : _process_big_raised(f) /\ UNCHANGED splitVars
    \/ \E f \in Files : _process_big_stream_event(f) /\ UNCHANGED splitVars
    \/ \E f \in Files : _process_big_stream_end(f) /\ UNCHANGED splitVars
    \/ \E f \in Files : _process_big_stream_error(f) /\ UNCHANGED splitVars

(* The steps of process() itself when it is given several files *)
NextSummary ==
    \/ process_gathered /\ UNCHANGED splitVars
    \/ process_raised /\ UNCHANGED splitVars
    \/ process_summary_event /\ UNCHANGED splitVars
    \/ process_summary_end /\ UNCHANGED splitVars
    \/ process_summary_error /\ UNCHANGED splitVars

(* A call of process() with one file *)
Spec == Init /\ [][NextFile]_vars

(* A call of process() with several files *)
SpecMulti == InitMulti /\ [][NextFile \/ NextSummary]_vars

SpecAny == InitAny /\ [][NextFile \/ NextSummary]_vars

(* The event loop runs every chunk task that can run: a task that can take  *)
(* or be handed a slot does so, and an analysis call under way returns or   *)
(* raises.                                                                  *)
ChunkStep(f, i) ==
    /\ \/ _process_chunk_acquire(f, i)
       \/ _process_chunk_resume(f, i)
       \/ _process_chunk_response(f, i)
       \/ _process_chunk_error(f, i)
    /\ UNCHANGED splitVars

TasksRun == \A i \in 1..MaxChunks : WF_vars(ChunkStep(1, i))

(* A call of process() with one file whose chunk tasks all run *)
SpecLive == Init /\ [][NextFile]_vars /\ TasksRun

-----------------------------------------------------------------------------
(* split_pdf (splitters/pdf_splitter.py).  The input is its byte length,    *)
(* whether fitz can open it, and its pages; a page is the number of bytes   *)
(* it adds to a document saved with garbage=4, deflate=True.  The length of *)
(* the input is its own: the saved documents are re-compressed.             *)

(* int(TARGET_LIMIT_BYTES * 0.90) *)
SOFT_TARGET_BYTES == (TARGET_LIMIT_BYTES * 9) \div 10

(* bytes of a saved document besides its pages *)
PdfOverhead == 1000

PageSizes == {1000000, 2000000, 4200000}

PdfLengths == {TARGET_LIMIT_BYTES - 1, TARGET_LIMIT_BYTES, 9000000}

SeqsUpTo(S, n) == UNION {[1..k -> S] : k \in 0..n}

Max(a, b) == IF a >= b THEN a ELSE b
Min(a, b) == IF a <= b THEN a ELSE b

RECURSIVE SumFrom(_, _, _)
(* sizes[from + 1] + ... + sizes[to] *)
SumFrom(sizes, from, to) ==
    IF from >= to THEN 0
    ELSE IF to = from + 1 THEN sizes[to]
    ELSE LET mid == (from + to) \div 2
         IN  SumFrom(sizes, from, mid) + SumFrom(sizes, mid, to)

(* len(chunk_data) of the pages from_page .. end_page - 1 inserted into a   *)
(* new document and saved                                                   *)
SavedPdfSize(from_page, end_page) ==
    PdfOverhead + SumFrom(pdf_file.pages, from_page, end_page)

total_pages == Len(pdf_file.pages)

(* return [file_bytes]: the input itself *)
InputBlob(file) == [data |-> "file_bytes", from |-> 0, to |-> Len(file.pages), size |-> file.len]

SavedBlobToLastPage(from, to, size) ==
    [data |-> "saved", from |-> from, to |-> to - 1, size |-> size]

(* a document saved from the pages from .. to - 1 of the input *)
SavedBlob(from, to, size) == [data |-> "saved", from |-> from, to |-> to, size |-> size]

(* max(1, int(SOFT_TARGET_BYTES / avg_bytes_page)), avg = len / total_pages *)
InitialBatchSize == Max(1, (SOFT_TARGET_BYTES * total_pages) \div pdf_file.len)

GrownRoundedUp(b) == (3 * b + 1) \div 2

(* int(batch_size * 1.5) *)
Grown(b) == (3 * b) \div 2

(* max(1, int(batch_size * 0.9)) *)
Shrunk(b) == Max(1, (9 * b) \div 10)

(* the thresholds taken of the hard limit instead of the soft target *)
AdjustedAgainstLimit(b, current_size) ==
    IF 2 * current_size < TARGET_LIMIT_BYTES THEN Grown(b)
    ELSE IF 20 * current_size > 19 * TARGET_LIMIT_BYTES THEN Shrunk(b)
    ELSE b

(* the batch size after an accepted batch of current_size bytes:            *)
(* current_size < SOFT * 0.5, elif current_size > SOFT * 0.95               *)
Adjusted(b, current_size) ==
    IF 2 * current_size < SOFT_TARGET_BYTES THEN Grown(b)
    ELSE IF 20 * current_size > 19 * SOFT_TARGET_BYTES THEN Shrunk(b)
    ELSE b

RECURSIVE PowerOfTwoBelow(_, _)
(* the largest power of two below n, from the power of two p on *)
PowerOfTwoBelow(n, p) == IF 2 * p < n THEN PowerOfTwoBelow(n, 2 * p) ELSE p

(* int(batch_size * 0.7), a product of doubles.  The double 0.7 is          *)
(* 0.7 - 0.4 * 2^-53, so the exact product is 7b/10 - 0.4 * b * 2^-53,      *)
(* rounded to the nearest double.  Where 7b/10 is not whole the integer     *)
(* part is not touched.  Where 7b/10 is a whole number n, the doubles just  *)
(* below n are 2^-52 * P apart, P the largest power of two below n: the     *)
(* product rounds to n unless 0.4 * b * 2^-53 is more than half of that     *)
(* (2b > 5P), and then it is below n and int gives n - 1.                   *)
TimesSevenTenths(b) ==
    LET n == (7 * b) \div 10
    IN  IF b > 0 /\ b % 10 = 0 /\ 2 * b > 5 * PowerOfTwoBelow(n, 1) THEN n - 1 ELSE n

ReducedToItself(b) == Max(1, b)

(* the batch size after an overshoot: int(batch_size * 0.7), one less if    *)
(* that did not decrease it, at least 1                                     *)
Reduced(b) ==
    LET new_batch_size == TimesSevenTenths(b)
    IN  Max(1, IF new_batch_size >= b THEN b - 1 ELSE new_batch_size)

AcceptedUpToTwo(current_size, b) == current_size <= TARGET_LIMIT_BYTES \/ b <= 2

(* if current_size <= TARGET_LIMIT_BYTES or batch_size == 1 *)
Accepted(current_size, b) == current_size <= TARGET_LIMIT_BYTES \/ b = 1

Logged(level, blob) == [level |-> level, blob |-> blob]

(* without the test of the page count: the average page size divides by    *)
(* zero, which ends in PDFSplitError                                        *)
split_pdf_call_without_page_test ==
    /\ pdfPc = "called"
    /\ IF pdf_file.len < TARGET_LIMIT_BYTES
       THEN /\ pdf_chunks' = <<InputBlob(pdf_file)>>
            /\ pdfPc' = "returned"
            /\ UNCHANGED <<current_page, batch_size, pdf_log>>
       ELSE IF ~pdf_file.valid \/ total_pages = 0
       THEN /\ pdfPc' = "raised"
            /\ pdf_log' = Append(pdf_log, Logged("exception", 0))
            /\ UNCHANGED <<current_page, batch_size, pdf_chunks>>
       ELSE /\ pdfPc' = "loop"
            /\ current_page' = 0
            /\ batch_size' = InitialBatchSize
            /\ UNCHANGED <<pdf_chunks, pdf_log>>
    /\ UNCHANGED <<pdf_file, procVars, xlsxVars, handlerVars>>

(* split_pdf up to the loop: fast path, fitz.open, page count, first batch *)
split_pdf_call ==
    /\ pdfPc = "called"
    /\ IF pdf_file.len < TARGET_LIMIT_BYTES
       THEN /\ pdf_chunks' = <<InputBlob(pdf_file)>>
            /\ pdfPc' = "returned"
            /\ UNCHANGED <<current_page, batch_size, pdf_log>>
       ELSE IF ~pdf_file.valid
       THEN /\ pdfPc' = "raised"
            /\ pdf_log' = Append(pdf_log, Logged("exception", 0))
            /\ UNCHANGED <<current_page, batch_size, pdf_chunks>>
       ELSE IF total_pages = 0
       THEN /\ pdfPc' = "returned"
            /\ UNCHANGED <<current_page, batch_size, pdf_chunks, pdf_log>>
       ELSE /\ pdfPc' = "loop"
            /\ current_page' = 0
            /\ batch_size' = InitialBatchSize
            /\ UNCHANGED <<pdf_chunks, pdf_log>>
    /\ UNCHANGED <<pdf_file, procVars, xlsxVars, handlerVars>>

(* one pass of the retry loop, CASE 1: the batch is appended *)
split_pdf_accept ==
    /\ pdfPc = "loop"
    /\ current_page < total_pages
    /\ LET end_page == Min(current_page + batch_size, total_pages)
           current_size == SavedPdfSize(current_page, end_page)
       IN  /\ Accepted(current_size, batch_size)
           /\ pdf_chunks' = Append(pdf_chunks, SavedBlob(current_page, end_page, current_size))
           /\ current_page' = end_page
           /\ batch_size' = Adjusted(batch_size, current_size)
    /\ UNCHANGED <<pdf_file, pdfPc, pdf_log, procVars, xlsxVars, handlerVars>>

(* one pass of the retry loop, CASE 2: the batch is too large *)
split_pdf_overshoot ==
    /\ pdfPc = "loop"
    /\ current_page < total_pages
    /\ LET end_page == Min(current_page + batch_size, total_pages)
           current_size == SavedPdfSize(current_page, end_page)
       IN  /\ ~Accepted(current_size, batch_size)
           /\ batch_size' = Reduced(batch_size)
    /\ UNCHANGED <<pdf_file, pdfPc, current_page, pdf_chunks, pdf_log, procVars, xlsxVars, handlerVars>>

(* while current_page < total_pages ends: return chunks *)
split_pdf_return ==
    /\ pdfPc = "loop"
    /\ current_page >= total_pages
    /\ pdfPc' = "returned"
    /\ UNCHANGED <<pdf_file, current_page, batch_size, pdf_chunks, pdf_log, procVars, xlsxVars, handlerVars>>

(* Documents of many pages: light pages first, heavy pages after them.  The *)
(* first batch of 60 pages is small enough for the batch to grow to 90      *)
(* pages, which the heavy pages overshoot.                                  *)
LongPdfs ==
    {[len |-> 9400000, valid |-> TRUE,
      pages |-> [j \in 1..150 |-> IF j <= 60 THEN 20000 ELSE heavy]] : heavy \in {30000, 50000}}

(* the processor is constructed and idle *)
NoCall == InitCall({1}, {0}, {1}, 0, 0)

InitPdf ==
    /\ NoCall
    /\ pdf_file \in [len : PdfLengths, valid : BOOLEAN, pages : SeqsUpTo(PageSizes, MaxPages)]
                    \cup LongPdfs
    /\ pdfPc = "called"
    /\ current_page = 0
    /\ batch_size = 1
    /\ pdf_chunks = <<>>
    /\ pdf_log = <<>>
    /\ NoXlsx
    /\ NoHandler

NextPdf ==
    \/ split_pdf_call
    \/ split_pdf_accept
    \/ split_pdf_overshoot
    \/ split_pdf_return

(* One call of split_pdf *)
SpecPdf == InitPdf /\ [][NextPdf]_vars

(* One call of split_pdf that runs on: nothing suspends the function *)
SpecPdfLive == InitPdf /\ [][NextPdf]_vars /\ WF_vars(NextPdf)

-----------------------------------------------------------------------------
(* split_xlsx (splitters/xlsx_splitter.py).  The input is its byte length,  *)
(* whether CalamineWorkbook can open it, and its sheets in sheet_names      *)
(* order; a sheet is the number of bytes it adds to a saved workbook, and   *)
(* is named by its position.                                                *)

(* bytes of a saved workbook besides its sheets *)
XlsxOverhead == 5000

SheetSizes == {1000000, 2000000, 4200000}

XlsxLengths == {TARGET_LIMIT_BYTES - 1, TARGET_LIMIT_BYTES, 9000000}

sheet_names == [j \in 1..Len(xlsx_file.sheets) |-> j]

RECURSIVE SumOver(_, _)
SumOver(sizes, names) ==
    IF names = <<>> THEN 0 ELSE sizes[Head(names)] + SumOver(sizes, Tail(names))

(* len(buffer.getvalue()) of a workbook holding copies of the named sheets *)
SavedXlsxSize(names) == XlsxOverhead + SumOver(xlsx_file.sheets, names)

InputWorkbookRepacked(file) ==
    [data |-> "saved", sheets |-> [j \in 1..Len(file.sheets) |-> j], size |-> file.len]

(* return [file_bytes]: the input itself *)
InputWorkbook(file) ==
    [data |-> "file_bytes", sheets |-> [j \in 1..Len(file.sheets) |-> j], size |-> file.len]

(* chunk_data: a workbook saved from copies of the named sheets *)
SavedWorkbook(names) == [data |-> "saved", sheets |-> names, size |-> SavedXlsxSize(names)]

NewGroupWithoutSheet(sheet_name) == <<>>

(* current_sheets = [sheet_name] *)
NewGroup(sheet_name) == <<sheet_name>>

StartsNewGroupAtLimit(estimate, sheet_size, sheets) ==
    estimate + sheet_size > TARGET_LIMIT_BYTES /\ sheets # <<>>

(* if current_size_estimate + sheet_size > SOFT_TARGET_BYTES and current_sheets *)
StartsNewGroup(estimate, sheet_size, sheets) ==
    estimate + sheet_size > SOFT_TARGET_BYTES /\ sheets # <<>>

(* the fast path taken before the workbook is opened *)
split_xlsx_call_size_first ==
    /\ xlsxPc = "called"
    /\ IF xlsx_file.len < TARGET_LIMIT_BYTES
       THEN /\ xlsx_chunks' = <<InputWorkbook(xlsx_file)>>
            /\ xlsxPc' = "returned"
            /\ UNCHANGED xlsx_log
       ELSE IF ~xlsx_file.valid
       THEN /\ xlsxPc' = "raised"
            /\ xlsx_log' = Append(xlsx_log, Logged("exception", 0))
            /\ UNCHANGED xlsx_chunks
       ELSE /\ xlsxPc' = IF sheet_names = <<>> THEN "returned" ELSE "loop"
            /\ UNCHANGED <<xlsx_chunks, xlsx_log>>
    /\ UNCHANGED <<xlsx_file, sheet_index, current_sheets, current_size_estimate,
                   procVars, pdfVars, handlerVars>>

(* split_xlsx up to the for loop: validation, empty workbook, fast path *)
split_xlsx_call ==
    /\ xlsxPc = "called"
    /\ IF ~xlsx_file.valid
       THEN /\ xlsxPc' = "raised"
            /\ xlsx_log' = Append(xlsx_log, Logged("exception", 0))
            /\ UNCHANGED xlsx_chunks
       ELSE IF sheet_names = <<>>
       THEN /\ xlsxPc' = "returned"
            /\ UNCHANGED <<xlsx_chunks, xlsx_log>>
       ELSE IF xlsx_file.len < TARGET_LIMIT_BYTES
       THEN /\ xlsx_chunks' = <<InputWorkbook(xlsx_file)>>
            /\ xlsxPc' = "returned"
            /\ UNCHANGED xlsx_log
       ELSE /\ xlsxPc' = "loop"
            /\ UNCHANGED <<xlsx_chunks, xlsx_log>>
    /\ UNCHANGED <<xlsx_file, sheet_index, current_sheets, current_size_estimate,
                   procVars, pdfVars, handlerVars>>

(* one pass of the for loop, CASE 1: the group is saved and a new one       *)
(* starts at this sheet                                                     *)
split_xlsx_flush ==
    /\ xlsxPc = "loop"
    /\ sheet_index < Len(sheet_names)
    /\ LET sheet_name == sheet_names[sheet_index + 1]
           sheet_size == SavedXlsxSize(<<sheet_name>>)
           chunk_data == SavedWorkbook(current_sheets)
       IN  /\ StartsNewGroup(current_size_estimate, sheet_size, current_sheets)
           /\ xlsx_log' = IF chunk_data.size > TARGET_LIMIT_BYTES
                          THEN Append(xlsx_log, Logged("warning", Len(xlsx_chunks) + 1))
                          ELSE xlsx_log
           /\ xlsx_chunks' = Append(xlsx_chunks, chunk_data)
           /\ current_sheets' = NewGroup(sheet_name)
           /\ current_size_estimate' = sheet_size
    /\ sheet_index' = sheet_index + 1
    /\ UNCHANGED <<xlsx_file, xlsxPc, procVars, pdfVars, handlerVars>>

(* one pass of the for loop, CASE 2: the sheet joins the group *)
split_xlsx_add ==
    /\ xlsxPc = "loop"
    /\ sheet_index < Len(sheet_names)
    /\ LET sheet_name == sheet_names[sheet_index + 1]
           sheet_size == SavedXlsxSize(<<sheet_name>>)
       IN  /\ ~StartsNewGroup(current_size_estimate, sheet_size, current_sheets)
           /\ current_sheets' = Append(current_sheets, sheet_name)
           /\ current_size_estimate' = current_size_estimate + sheet_size
    /\ sheet_index' = sheet_index + 1
    /\ UNCHANGED <<xlsx_file, xlsxPc, xlsx_chunks, xlsx_log, procVars, pdfVars, handlerVars>>

(* after the loop: the pending group is saved, return chunks *)
split_xlsx_return ==
    /\ xlsxPc = "loop"
    /\ sheet_index >= Len(sheet_names)
    /\ xlsx_chunks' = IF current_sheets # <<>>
                      THEN Append(xlsx_chunks, SavedWorkbook(current_sheets))
                      ELSE xlsx_chunks
    /\ xlsxPc' = "returned"
    /\ UNCHANGED <<xlsx_file, sheet_index, current_sheets, current_size_estimate, xlsx_log,
                   procVars, pdfVars, handlerVars>>

InitXlsx ==
    /\ NoCall
    /\ NoPdf
    /\ NoHandler
    /\ xlsx_file \in [len : XlsxLengths, valid : BOOLEAN, sheets : SeqsUpTo(SheetSizes, MaxSheets)]
    /\ xlsxPc = "called"
    /\ sheet_index = 0
    /\ current_sheets = <<>>
    /\ current_size_estimate = 0
    /\ xlsx_chunks = <<>>
    /\ xlsx_log = <<>>

NextXlsx ==
    \/ split_xlsx_call
    \/ split_xlsx_flush
    \/ split_xlsx_add
    \/ split_xlsx_return

(* One call of split_xlsx *)
SpecXlsx == InitXlsx /\ [][NextXlsx]_vars

(* One call of either splitter *)
SpecSplit == (InitPdf \/ InitXlsx) /\ [][NextPdf \/ NextXlsx]_vars

-----------------------------------------------------------------------------
(***************************************************************************)
(* get_handler (src/lib/processor/handlers.py).  A suffix is the sequence  *)
(* of the characters of file_path.suffix: empty, or a dot and letters.     *)
(***************************************************************************)
MaxSuffix == 4

(* the letters of the suffixes tried, and which of them are a lower-case   *)
(* and upper-case form of the same letter                                  *)
Letters == {"p", "d", "f", "x", "l", "s", "P", "D", "F", "X"}
CasePairs == {<<"p", "P">>, <<"d", "D">>, <<"f", "F">>, <<"x", "X">>}

Suffixes == {<<>>} \cup {<<".">> \o s : s \in SeqsUpTo(Letters, MaxSuffix) \ {<<>>}}
Blobs == {<<37>>, <<80, 75>>}

(* str.lower() *)
LowerChar(c) ==
    IF \E p \in CasePairs : p[2] = c
    THEN (CHOOSE p \in CasePairs : p[2] = c)[1]
    ELSE c

lower_case_sensitive(str) == str

lower(str) == [j \in 1..Len(str) |-> LowerChar(str[j])]

PDFHandler == [class |-> "PDFHandler", format |-> <<"p", "d", "f">>, split |-> "split_pdf"]
XLSXHandler == [class |-> "XLSXHandler", format |-> <<"x", "l", "s", "x">>, split |-> "split_xlsx"]
(* GenericHandler(format): split returns [file_bytes] *)
GenericHandler(format) == [class |-> "GenericHandler", format |-> format, split |-> "file_bytes"]

HANDLER_REGISTRY ==
    (<<".", "p", "d", "f">> :> PDFHandler) @@ (<<".", "x", "l", "s", "x">> :> XLSXHandler)

get_handler(fp) ==
    LET suffix == lower(fp.suffix)
    IN  IF suffix \notin DOMAIN HANDLER_REGISTRY
        THEN GenericHandler(SubSeq(suffix, 2, Len(suffix)))
        ELSE HANDLER_REGISTRY[suffix]

get_handler_call ==
    /\ handlerPc = "called"
    /\ handler' = get_handler(file_path)
    /\ handlerPc' = "returned"
    /\ UNCHANGED <<file_path, file_bytes, handler_chunks, procVars, pdfVars, xlsxVars>>

(* handler.split(file_bytes): the generic handler returns the list of the  *)
(* input; the other two pass it on to split_pdf or split_xlsx              *)
handler_split ==
    /\ handlerPc = "returned"
    /\ \E b \in Blobs :
        /\ file_bytes' = b
        /\ IF handler.split = "file_bytes"
           THEN handler_chunks' = <<b>> /\ handlerPc' = "split"
           ELSE handler_chunks' = handler_chunks /\ handlerPc' = handler.split
    /\ UNCHANGED <<file_path, handler, procVars, pdfVars, xlsxVars>>

InitHandler ==
    /\ NoCall
    /\ NoPdf
    /\ NoXlsx
    /\ file_path \in [suffix : Suffixes]
    /\ handlerPc = "called"
    /\ handler = [class |-> "none", format |-> <<>>, split |-> "none"]
    /\ file_bytes = NoFile
    /\ handler_chunks = <<>>

NextHandler ==
    \/ get_handler_call
    \/ handler_split

(* One call of get_handler, and of the split of the handler it returned *)
SpecHandler == InitHandler /\ [][NextHandler]_vars

-----------------------------------------------------------------------------
(* Properties *)

Occurrences(seq, x) == Cardinality({j \in 1..Len(seq) : seq[j] = x})

(* the consolidation request of a chunked file was issued *)
ConsolidationIssued(f) ==
    path[f] = <<"chunked">> /\ Occurrences(fileTrace[f], "stream_async") >= 1

(* chunk tasks whose chunk-start was notified and that have not ended *)
Begun(f) ==
    {i \in Chunks(f) : /\ Count(notified, EvChunkStart(f, i)) > 0
                       /\ chunkPc[f][i] \notin {"done", "failed"}}

(* C1: in every reachable state of a chunked run, the chunk tasks that have *)
(* begun (chunk-start notified, analysis call in flight) and have not yet   *)
(* completed or failed number at most max_workers.                          *)
C1_InFlightAtMostCapacity ==
    \A f \in Files : Cardinality(Begun(f)) <= max_workers

(* more chunks than slots, every slot taken and a task waiting for one *)
C1_Witness ==
    \E f \in Files :
        /\ Len(chunkPc[f]) > max_workers
        /\ max_workers = 2
        /\ Cardinality(Begun(f)) = max_workers
        /\ \E i \in Chunks(f) : chunkPc[f][i] = "waiting"

(* the texts the chunk tasks returned, by chunk number *)
TextsByNumber(f) == [i \in 1..Len(chunkPc[f]) |-> chunkResult[f][i][2]]

(* C2: when every chunk analysis succeeded, the consolidated context of the *)
(* consolidation request is the partial texts joined in ascending sequence  *)
(* number 1..N (capped at the budget): a function of the texts by number    *)
(* alone, the same whatever the order in which the tasks ended.             *)
C2_ContextInSequenceOrder ==
    \A f \in Files :
        ConsolidationIssued(f) =>
            context[f] = _consolidate_and_truncate(TextsByNumber(f))

(* three chunks with different texts whose tasks ended out of order *)
C2_Witness ==
    \E f \in Files :
        /\ ConsolidationIssued(f)
        /\ Len(chunkPc[f]) = 3
        /\ outOfOrder[f]
        /\ chunkResult[f][1][2] # chunkResult[f][2][2]

(* C3: when the consolidation request is issued, the gathered results hold  *)
(* exactly one entry for each sequence number 1..N, N the number of blobs   *)
(* the splitter returned, and every chunk's analysis was invoked once.      *)
C3_OneResultPerChunk ==
    \A f \in Files :
        ConsolidationIssued(f) =>
            /\ Len(gathered[f]) = Len(chunkPc[f])
            /\ \A j \in 1..Len(gathered[f]) :
                /\ gathered[f][j][1] = j
                /\ gathered[f][j] = chunkResult[f][j]
                /\ invoked[f][j] = 1

C3_Witness ==
    \E f \in Files : ConsolidationIssued(f) /\ Len(gathered[f]) = 3

(* C4: once the analysis of a chunk has failed, the file's processing fails *)
(* (gather holds an exception and _process_big raises it to the caller),    *)
(* the error hook is notified exactly once for that error, and no           *)
(* consolidation request is issued for the file.                            *)
C4_ChunkFailureFailsFile ==
    \A f \in Files : \A i \in Chunks(f) :
        AnalysisErr(f, i) \in agentFailed =>
            /\ filePc[f] \in {"gather", "failed"}
            /\ gatherExc[f] # NoErr
            /\ filePc[f] = "failed" =>
                 /\ fileError[f] = gatherExc[f]
                 /\ numFiles = 1 => callPc = "failed" /\ callError = fileError[f]
            /\ Count(notified, EvError(AnalysisErr(f, i))) = 1
            /\ \A l \in 1..listeners :
                 Count(hookCalls, [listener |-> l, event |-> EvError(AnalysisErr(f, i))]) <= 1
            /\ Occurrences(fileTrace[f], "stream_async") = 0

(* three chunks, exactly one analysis failed, the others returned, and the  *)
(* error has reached the caller                                             *)
C4_Witness ==
    \E f \in Files :
        /\ Len(chunkPc[f]) = 3
        /\ Cardinality({i \in Chunks(f) : AnalysisErr(f, i) \in agentFailed}) = 1
        /\ Cardinality({i \in Chunks(f) : chunkPc[f][i] = "done"}) = 2
        /\ listeners >= 1
        /\ callPc = "failed"


(* C5: whenever a failure raised during the call (splitter, chunk analysis, *)
(* direct stream, per-file consolidation stream, cross-file consolidation   *)
(* stream) has reached the caller, the error hook of every registered       *)
(* listener has been called with that error.                                *)
C5_EveryFailureNotified ==
    (callPc = "failed" /\ callError.type \in {"split", "analysis", "stream"}) =>
        \A l \in 1..listeners :
            Count(hookCalls, [listener |-> l, event |-> EvError(callError)]) >= 1

(* C6: the exception leaving a chunk task or the direct path whose analysis *)
(* call failed is that original analysis error, and the caller never        *)
(* receives an on_error hook's own failure in its place.                    *)
C6_OriginalErrorDelivered ==
    /\ \A f \in Files : \A i \in Chunks(f) :
         (chunkPc[f][i] = "failed" /\ AnalysisErr(f, i) \in agentFailed) =>
             chunkError[f][i] = AnalysisErr(f, i)
    /\ \A f \in Files :
         (path[f] = <<"direct">> /\ filePc[f] = "failed" /\ StreamErr(f) \in agentFailed) =>
             fileError[f] = StreamErr(f)
    /\ callPc = "failed" => ~(callError.type = "hook" /\ callError.hook = "error")

(* C7: in a call with several files, once the processing of a file has      *)
(* failed the call can only fail: gather holds an exception, the caller     *)
(* receives the error of a failed file, no output fragment is produced,     *)
(* summary-start is not notified and no cross-file request is issued.       *)
C7_FailedFileFailsCall ==
    (numFiles >= 2 /\ \E f \in Files : filePc[f] = "failed") =>
        /\ callPc \in {"running", "failed"}
        /\ callGather # NoErr
        /\ callPc = "failed" =>
             /\ callError = callGather
             /\ \E f \in Files : filePc[f] = "failed" /\ fileError[f] = callError
        /\ output = <<>>
        /\ Count(notified, EvSummaryStart) = 0
        /\ callTrace = <<>>

(* one file failed, another completed with text, and the call has failed *)
C7_Witness ==
    /\ numFiles >= 2
    /\ callPc = "failed"
    /\ \E f \in Files : filePc[f] = "failed"
    /\ \E f \in Files : filePc[f] = "completed" /\ collected[f] # <<>>

(* C8: a file that has started ran exactly one path, once: the chunked one  *)
(* iff its byte length is strictly greater than the threshold, the direct   *)
(* one otherwise; the states of its run are those of that path only.        *)
C8_OnePathBySize ==
    \A f \in Files :
        /\ filePc[f] = "not_started" => path[f] = <<>>
        /\ filePc[f] # "not_started" =>
             path[f] = <<IF fileSize[f] > BYTES_THRESHOLD THEN "chunked" ELSE "direct">>
        /\ filePc[f] = "direct" => path[f] = <<"direct">>
        /\ filePc[f] \in {"gather", "consolidation"} => path[f] = <<"chunked">>
        /\ path[f] = <<"direct">> =>
             Len(chunkPc[f]) = 0 /\ gathered[f] = <<>> /\ context[f] = <<>>

(* a file of exactly the threshold length finished on the direct path *)
C8_Witness ==
    \E f \in Files :
        /\ fileSize[f] = BYTES_THRESHOLD
        /\ path[f] = <<"direct">>
        /\ filePc[f] = "completed"

RECURSIVE ExpectedFragments(_)
(* text of each event with a text payload, a line break for an event with   *)
(* a message marker and no payload, nothing for the rest                    *)
ExpectedFragments(evs) ==
    IF evs = <<>> THEN <<>>
    ELSE LET ev == Head(evs)
         IN  (IF "data" \in ev.keys THEN <<ev.data>>
              ELSE IF "message" \in ev.keys THEN <<"\n">>
              ELSE <<>>) \o ExpectedFragments(Tail(evs))

(* C9: on the direct path the fragments delivered are, in emission order,   *)
(* the expected fragments of the events forwarded so far; once the stream   *)
(* has ended, processing-start(name, 1) was notified exactly once before    *)
(* the agent request and processing-end(name) exactly once after the last   *)
(* forwarded event.                                                         *)
C9_DirectPathOrder ==
    \A f \in Files :
        path[f] = <<"direct">> =>
            /\ collected[f] = ExpectedFragments(streamed[f])
            /\ numFiles = 1 => output = collected[f]
            /\ Count(notified, EvProcessingStart(f, 1)) = 1
            /\ Occurrences(fileTrace[f], "processing_end") >= 1 =>
                 /\ SubSeq(fileTrace[f], 1, Len(streamed[f]) + 3) =
                        <<"processing_start", "stream_async">>
                            \o [j \in 1..Len(streamed[f]) |-> "event"]
                            \o <<"processing_end">>
                 /\ Count(notified, EvProcessingEnd(f)) = 1

(* a completed direct run that forwarded a payload event and a marker-only  *)
(* event to registered listeners                                            *)
C9_Witness ==
    \E f \in Files :
        /\ path[f] = <<"direct">>
        /\ filePc[f] = "completed"
        /\ listeners >= 1
        /\ Len(streamed[f]) = 2
        /\ \E j \in 1..2 : streamed[f][j].keys = {"data", "message"}
        /\ \E j \in 1..2 : streamed[f][j].keys = {"message"}

(* C10: in a call with several files, summary-start is notified only after  *)
(* every file's processing has completed, over the per-file texts; one      *)
(* cross-file request is issued, after summary-start; no fragment reaches   *)
(* the caller before summary-start; summary-end follows the last fragment.  *)
C10_SummaryOrder ==
    numFiles >= 2 =>
        /\ Count(notified, EvSummaryStart) <= 1
        /\ Count(notified, EvSummaryStart) = 1 =>
             /\ \A f \in Files : filePc[f] = "completed"
             /\ summaryContent = [f \in 1..numFiles |-> collected[f]]
        /\ output # <<>> => Count(notified, EvSummaryStart) = 1
        /\ callTrace # <<>> =>
             /\ Count(notified, EvSummaryStart) = 1
             /\ callTrace[1] = "summary_start"
        /\ Occurrences(callTrace, "stream_async") <= 1
        /\ \A j \in 1..Len(callTrace) :
             /\ callTrace[j] = "stream_async" => j = 2
             /\ callTrace[j] = "event" => j > 2
             /\ callTrace[j] = "summary_end" => j > 2 /\ j = Len(callTrace)
        /\ Count(notified, EvSummaryEnd) = Occurrences(callTrace, "summary_end")
        /\ callPc = "done" =>
             /\ Occurrences(callTrace, "stream_async") = 1
             /\ Count(notified, EvSummaryEnd) = 1

(* every file completed, one with text, and the summary response was       *)
(* delivered to the caller up to summary-end                                *)
C10_Witness ==
    /\ numFiles >= 2
    /\ callPc = "done"
    /\ output # <<>>
    /\ \A f \in Files : filePc[f] = "completed"
    /\ \E f \in Files : collected[f] # <<>>
    /\ listeners >= 1


(* C31: in a call with several files the content of the cross-file request *)
(* holds one text per file, the text of the k-th file of the list in k-th   *)
(* place, in whatever order the files' processings ended; before the        *)
(* request is built there is no content.                                    *)
C31_SummaryInFileOrder ==
    numFiles >= 2 =>
        /\ Count(notified, EvSummaryStart) = 0 => summaryContent = <<>>
        /\ Count(notified, EvSummaryStart) >= 1 =>
             /\ Len(summaryContent) = numFiles
             /\ \A f \in Files : summaryContent[f] = collected[f]

(* the second file ended before the first, with a different text, and the   *)
(* cross-file request was issued                                            *)
C31_Witness ==
    /\ numFiles = 2
    /\ finished = <<2, 1>>
    /\ collected[1] # collected[2]
    /\ callPc \in {"summary", "done"}
    /\ summaryContent = <<collected[1], collected[2]>>

(* C11: a call with exactly one file never notifies summary-start or        *)
(* summary-end and never issues a cross-file request; what the caller       *)
(* receives, fragments and outcome, is what that file's path produced.      *)
C11_SingleFileNoSummary ==
    numFiles = 1 =>
        /\ Count(notified, EvSummaryStart) = 0
        /\ Count(notified, EvSummaryEnd) = 0
        /\ callTrace = <<>>
        /\ summaryContent = <<>>
        /\ callPc \in {"running", "done", "failed"}
        /\ output = collected[1]
        /\ callPc = "done" <=> filePc[1] = "completed"
        /\ callPc = "failed" <=> filePc[1] = "failed"
        /\ callError = fileError[1]

(* a one-file call on the chunked path ended after delivering fragments *)
C11_Witness ==
    /\ numFiles = 1
    /\ callPc = "done"
    /\ path[1] = <<"chunked">>
    /\ output # <<>>


RECURSIVE CharAt(_, _)
(* the i-th character of a text, 1 <= i <= TextLen(t) *)
CharAt(t, i) == IF i <= Head(t).n THEN Head(t).ch ELSE CharAt(Tail(t), i - Head(t).n)

(* the positions at which the runs of a text end *)
RunEnds(t) == {TextLen(SubSeq(t, 1, j)) : j \in 1..Len(t)}

(* texts a and b have the same first k characters: they are constant        *)
(* between run ends, so it is enough to compare them around every run end   *)
SamePrefix(a, b, k) ==
    /\ TextLen(a) >= k
    /\ TextLen(b) >= k
    /\ LET ends == RunEnds(a) \cup RunEnds(b)
           probes == ({1, k} \cup ends \cup {e + 1 : e \in ends}) \cap (1..k)
       IN  \A i \in probes : CharAt(a, i) = CharAt(b, i)

(* the responses in the order _process_big hands them over *)
Responses(f) == [j \in 1..Len(gathered[f]) |-> gathered[f][j][2]]

(* C18: with J the responses joined in order by the separator, the context  *)
(* is J unchanged if len(J) <= the budget; otherwise it has exactly budget  *)
(* + len(marker) characters: the first budget characters of J, then the     *)
(* truncation marker.                                                       *)
C18_TruncationAtBudget ==
    \A f \in Files :
        ConsolidationIssued(f) =>
            LET J == TextJoin(Responses(f), ChunkSeparator)
                result == context[f]
            IN  IF TextLen(J) <= MAX_CONTEXT_CHARS
                THEN result = J
                ELSE /\ TextLen(result) = MAX_CONTEXT_CHARS + 16
                     /\ SamePrefix(result, J, MAX_CONTEXT_CHARS)
                     /\ CharAt(result, MAX_CONTEXT_CHARS + 1) = "\n"
                     /\ CharAt(result, MAX_CONTEXT_CHARS + 2) = "... [TRUNCATED]"
                     /\ CharAt(result, MAX_CONTEXT_CHARS + 16) = "... [TRUNCATED]"

(* three responses whose join is longer than the budget were truncated *)
C18_Witness ==
    \E f \in Files :
        /\ ConsolidationIssued(f)
        /\ Len(gathered[f]) = 3
        /\ TextLen(TextJoin(Responses(f), ChunkSeparator)) > MAX_CONTEXT_CHARS
        /\ TextLen(context[f]) > MAX_CONTEXT_CHARS

(* two responses whose join is exactly as long as the budget were kept *)
C18_WitnessAtBudget ==
    \E f \in Files :
        /\ ConsolidationIssued(f)
        /\ TextLen(TextJoin(Responses(f), ChunkSeparator)) = MAX_CONTEXT_CHARS
        /\ TextLen(context[f]) = MAX_CONTEXT_CHARS

(* C19: for every event notified, however many listeners are registered,    *)
(* the hook of each registered listener was called once per notification.   *)
C19_EveryListenerNotified ==
    \A ev \in BagToSet(notified) : \A l \in 1..listeners :
        Count(hookCalls, [listener |-> l, event |-> ev]) = Count(notified, ev)

(* what the loop over self.listeners does guarantee: a listener's hook is   *)
(* called at most once per notification and only after the hooks of the     *)
(* listeners registered before it; all are called when no hook has raised   *)
C19_ListenersInOrderUntilFailure ==
    \A ev \in BagToSet(notified) : \A l \in 1..listeners :
        LET calls(j) == Count(hookCalls, [listener |-> j, event |-> ev])
        IN  /\ calls(l) <= Count(notified, ev)
            /\ l > 1 => calls(l) <= calls(l - 1)
            /\ hookFailures = 0 => calls(l) = Count(notified, ev)

(* C20: for every chunk i, chunk-start(i) is notified at most once, and     *)
(* exactly once when the task has entered; chunk-end(i) is notified at most *)
(* once, only after chunk-start(i) and after the analysis call returned     *)
(* without failing; a chunk whose analysis failed has chunk-start(i), one   *)
(* error notification for that failure and no chunk-end(i).                 *)
C20_ChunkStartBeforeEnd ==
    \A f \in Files : \A i \in Chunks(f) :
        LET starts == Count(notified, EvChunkStart(f, i))
            ends == Count(notified, EvChunkEnd(f, i))
        IN  /\ starts <= 1
            /\ starts = 1 <=> chunkPc[f][i] \notin {"new", "waiting"}
            /\ ends <= 1
            /\ ends = 1 =>
                 /\ starts = 1
                 /\ invoked[f][i] = 1
                 /\ chunkPc[f][i] \in {"done", "failed"}
                 /\ AnalysisErr(f, i) \notin agentFailed
            /\ chunkPc[f][i] = "done" => ends = 1
            /\ AnalysisErr(f, i) \in agentFailed =>
                 /\ starts = 1
                 /\ ends = 0
                 /\ Count(notified, EvError(AnalysisErr(f, i))) = 1
                 /\ chunkPc[f][i] = "failed"

(* three chunks with listeners: one analysis failed, another returned, the  *)
(* tasks ended out of order, and a third has not started yet or is running  *)
C20_Witness ==
    \E f \in Files :
        /\ listeners >= 1
        /\ Len(chunkPc[f]) = 3
        /\ outOfOrder[f]
        /\ \E i \in Chunks(f) : AnalysisErr(f, i) \in agentFailed
        /\ \E i \in Chunks(f) : chunkPc[f][i] = "done"
        /\ \E i \in Chunks(f) : chunkPc[f][i] \in {"waiting", "invoking"}

(* tasks that hold a slot: the analysis call is under way, or a release   *)
(* handed them the slot and they have not run again yet                    *)
Holders(f) ==
    {i \in Chunks(f) : chunkPc[f][i] = "invoking"}
        \cup {i \in Chunks(f) : chunkPc[f][i] = "waiting" /\ Woken(semaphore[f], i)}

AllTasksEnded(f) == \A i \in Chunks(f) : chunkPc[f][i] \in {"done", "failed"}

(* C22: when every analysis call returns or fails, every chunk task, also  *)
(* with more chunks than slots, gets a slot and starts; a task gives its   *)
(* slot back when its analysis returns and when it fails, so the free      *)
(* slots and the held ones always add up to max_workers, and when all      *)
(* tasks have ended the semaphore is at max_workers with nobody waiting.   *)
C22_EveryTaskStartsAndGateRestored ==
    /\ \A i \in 1..MaxChunks :
            (i \in Chunks(1) /\ chunkPc[1][i] \in {"new", "waiting"})
                ~> (i \in Chunks(1) /\ chunkPc[1][i] \in {"invoking", "done", "failed"})
    /\ [](Chunks(1) # {} =>
            semaphore[1].value + Cardinality(Holders(1)) = max_workers)
    /\ [](Chunks(1) # {} /\ AllTasksEnded(1) => semaphore[1] = Semaphore(max_workers))

(* three chunks on fewer slots all ended, one of them by a failed analysis, *)
(* and the semaphore is whole again                                         *)
C22_Witness ==
    /\ Len(chunkPc[1]) = 3
    /\ max_workers < 3
    /\ AllTasksEnded(1)
    /\ \E i \in Chunks(1) : chunkPc[1][i] = "failed" /\ AnalysisErr(1, i) \in agentFailed
    /\ \E i \in Chunks(1) : chunkPc[1][i] = "done"
    /\ semaphore[1] = Semaphore(max_workers)

(* C23: on the chunked path processing-start(name, N), N being the number *)
(* of blobs the splitter returned, is notified before any chunk-start;     *)
(* processing-end(name) only after the chunk-end of every chunk; the       *)
(* consolidation request only after processing-end and after all N tasks   *)
(* returned, and once only; what the caller receives are the fragments of  *)
(* the events of that request's stream.                                    *)
C23_ChunkedPhasesInOrder ==
    \A f \in Files :
        path[f] = <<"chunked">> =>
            /\ (\E i \in Chunks(f) : Count(notified, EvChunkStart(f, i)) > 0) =>
                 /\ Count(notified, Event("processing_start", f, 0, Len(chunkPc[f]), NoErr)) = 1
                 /\ Head(fileTrace[f]) = "processing_start"
            /\ Count(notified, EvProcessingEnd(f)) > 0 =>
                 /\ Count(notified, EvProcessingEnd(f)) = 1
                 /\ \A i \in Chunks(f) :
                        /\ chunkPc[f][i] = "done"
                        /\ Count(notified, EvChunkStart(f, i)) = 1
                        /\ Count(notified, EvChunkEnd(f, i)) = 1
            /\ Occurrences(fileTrace[f], "stream_async") > 0 =>
                 /\ Occurrences(fileTrace[f], "stream_async") = 1
                 /\ SubSeq(fileTrace[f], 1, 3) =
                        <<"processing_start", "processing_end", "stream_async">>
                 /\ Count(notified, EvProcessingEnd(f)) = 1
                 /\ \A i \in Chunks(f) : chunkPc[f][i] = "done"
                 /\ Len(gathered[f]) = Len(chunkPc[f])
            /\ Len(streamed[f]) > 0 => Occurrences(fileTrace[f], "stream_async") = 1
            /\ collected[f] = ExpectedFragments(streamed[f])
            /\ numFiles = 1 => output = collected[f]

(* a chunked run of three chunks completed and streamed a payload event to *)
(* the caller                                                              *)
C23_Witness ==
    \E f \in Files :
        /\ path[f] = <<"chunked">>
        /\ filePc[f] = "completed"
        /\ Len(chunkPc[f]) = 3
        /\ listeners >= 1
        /\ Len(streamed[f]) >= 1
        /\ output # <<>>

(* the gather of _process_big has raised the first failure of a task to   *)
(* _process_file, and so to the caller                                     *)
RaisedToCaller(f) == filePc[f] = "failed" /\ gatherExc[f] # NoErr

(* C24: raising the first chunk failure to the caller leaves the other     *)
(* tasks of the file as they are: none is cancelled; after it a task in    *)
(* flight can still return (chunk-end) or fail (error), a task not yet     *)
(* started or handed a slot can still start (chunk-start), and every task  *)
(* runs to its end.                                                        *)
C24_FailureCancelsNoTask ==
    /\ [][\A f \in Files :
            ~RaisedToCaller(f) /\ RaisedToCaller(f)' =>
                /\ chunkPc'[f] = chunkPc[f]
                /\ semaphore'[f] = semaphore[f]]_vars
    /\ [](\A f \in Files : RaisedToCaller(f) =>
            \A i \in Chunks(f) :
                /\ chunkPc[f][i] = "invoking" =>
                     /\ ENABLED _process_chunk_response(f, i)
                     /\ ENABLED _process_chunk_error(f, i)
                /\ chunkPc[f][i] = "new" => ENABLED _process_chunk_acquire(f, i)
                /\ (chunkPc[f][i] = "waiting" /\ Woken(semaphore[f], i)) =>
                     ENABLED _process_chunk_resume(f, i))
    /\ RaisedToCaller(1) ~> (RaisedToCaller(1) /\ AllTasksEnded(1))

(* the failure of one task was raised to the caller while a second task's  *)
(* analysis is under way and a third waits for a slot                      *)
C24_Witness ==
    \E f \in Files :
        /\ RaisedToCaller(f)
        /\ callPc = "failed"
        /\ \E i \in Chunks(f) : chunkPc[f][i] = "invoking"
        /\ \E i \in Chunks(f) : chunkPc[f][i] = "waiting"

(* after the failure was raised to the caller, the other two tasks ended:  *)
(* one returned and one failed with an error of its own                    *)
C24_WitnessEnded ==
    \E f \in Files :
        /\ RaisedToCaller(f)
        /\ Len(chunkPc[f]) = 3
        /\ AllTasksEnded(f)
        /\ \E i \in Chunks(f) : chunkPc[f][i] = "done" /\ Count(notified, EvChunkEnd(f, i)) = 1
        /\ \E i, j \in Chunks(f) :
            /\ i # j
            /\ chunkError[f][i] = AnalysisErr(f, i)
            /\ chunkError[f][j] = AnalysisErr(f, j)
            /\ Count(notified, EvError(AnalysisErr(f, i))) = 1
            /\ Count(notified, EvError(AnalysisErr(f, j))) = 1

-----------------------------------------------------------------------------
(* Properties of the splitters *)

(* the call went past the fast path and the page count: the loop splits *)
PdfSplits == pdfPc = "loop" \/ (pdfPc = "returned" /\ pdf_file.len >= TARGET_LIMIT_BYTES)
XlsxSplits == xlsxPc = "loop" \/ (xlsxPc = "returned" /\ xlsx_file.len >= TARGET_LIMIT_BYTES)

Units(blob) == IF "sheets" \in DOMAIN blob THEN Len(blob.sheets) ELSE blob.to - blob.from

(* C12: for both splitters, every blob emitted by an actual split that      *)
(* holds more than one page or sheet has size <= the hard limit; a blob     *)
(* above the hard limit holds exactly one page or sheet, itself above it.   *)
C12_OnlySingleUnitExceeds ==
    /\ PdfSplits =>
         \A k \in 1..Len(pdf_chunks) :
            /\ Units(pdf_chunks[k]) > 1 => pdf_chunks[k].size <= TARGET_LIMIT_BYTES
            /\ pdf_chunks[k].size > TARGET_LIMIT_BYTES =>
                 /\ Units(pdf_chunks[k]) = 1
                 /\ SavedPdfSize(pdf_chunks[k].from, pdf_chunks[k].from + 1) > TARGET_LIMIT_BYTES
    /\ XlsxSplits =>
         \A k \in 1..Len(xlsx_chunks) :
            /\ Units(xlsx_chunks[k]) > 1 => xlsx_chunks[k].size <= TARGET_LIMIT_BYTES
            /\ xlsx_chunks[k].size > TARGET_LIMIT_BYTES =>
                 /\ Units(xlsx_chunks[k]) = 1
                 /\ SavedXlsxSize(xlsx_chunks[k].sheets) > TARGET_LIMIT_BYTES

(* a finished split_pdf that overshot on the way and returned both a blob   *)
(* of several pages and a one-page blob above the limit                     *)
C12_Witness ==
    /\ pdfPc = "returned"
    /\ \E k \in 1..Len(pdf_chunks) : Units(pdf_chunks[k]) > 1
    /\ \E k \in 1..Len(pdf_chunks) :
         pdf_chunks[k].size > TARGET_LIMIT_BYTES /\ Units(pdf_chunks[k]) = 1

(* a finished split_xlsx with a blob of several sheets and a one-sheet blob *)
(* above the limit                                                          *)
C12_WitnessXlsx ==
    /\ xlsxPc = "returned"
    /\ \E k \in 1..Len(xlsx_chunks) : Units(xlsx_chunks[k]) > 1
    /\ \E k \in 1..Len(xlsx_chunks) :
         xlsx_chunks[k].size > TARGET_LIMIT_BYTES /\ Units(xlsx_chunks[k]) = 1

(* C13: for every blob above the hard limit that a splitter has emitted, a  *)
(* warning was logged for that blob, wherever it falls in the output.       *)
C13_OversizeBlobWarned ==
    /\ \A k \in 1..Len(pdf_chunks) :
         (pdf_chunks[k].data = "saved" /\ pdf_chunks[k].size > TARGET_LIMIT_BYTES) =>
             \E j \in 1..Len(pdf_log) : pdf_log[j] = Logged("warning", k)
    /\ \A k \in 1..Len(xlsx_chunks) :
         (xlsx_chunks[k].data = "saved" /\ xlsx_chunks[k].size > TARGET_LIMIT_BYTES) =>
             \E j \in 1..Len(xlsx_log) : xlsx_log[j] = Logged("warning", k)

(* split_xlsx alone: a warning for every blob above the limit *)
C13_OversizeWorkbookWarned ==
    \A k \in 1..Len(xlsx_chunks) :
        (xlsx_chunks[k].data = "saved" /\ xlsx_chunks[k].size > TARGET_LIMIT_BYTES) =>
            \E j \in 1..Len(xlsx_log) : xlsx_log[j] = Logged("warning", k)


(* C14: when split_pdf actually splits an input of P >= 1 pages, the page   *)
(* ranges of the blobs in output order are non-empty and contiguous: the    *)
(* first starts at page 0, each next starts where the previous ended, the   *)
(* last ends at the page cursor, which is P when the split returns.         *)
C14_PageRangesContiguous ==
    (PdfSplits /\ total_pages >= 1) =>
        /\ \A k \in 1..Len(pdf_chunks) :
             /\ pdf_chunks[k].data = "saved"
             /\ pdf_chunks[k].from < pdf_chunks[k].to
             /\ pdf_chunks[k].from = IF k = 1 THEN 0 ELSE pdf_chunks[k - 1].to
             /\ pdf_chunks[k].to <= total_pages
        /\ current_page = IF pdf_chunks = <<>> THEN 0 ELSE pdf_chunks[Len(pdf_chunks)].to
        /\ pdfPc = "returned" => current_page = total_pages /\ pdf_chunks # <<>>

(* a returned split of four pages into three blobs or more *)
C14_Witness ==
    /\ pdfPc = "returned"
    /\ pdf_file.len >= TARGET_LIMIT_BYTES
    /\ total_pages = 4
    /\ Len(pdf_chunks) >= 3
    /\ \E k \in 1..Len(pdf_chunks) : Units(pdf_chunks[k]) > 1

RECURSIVE SheetsOf(_)
(* the sheets of the blobs, read in output order *)
SheetsOf(blobs) ==
    IF blobs = <<>> THEN <<>> ELSE Head(blobs).sheets \o SheetsOf(Tail(blobs))

(* C15: when split_xlsx actually splits a valid input, every blob holds at  *)
(* least one sheet, and the sheets of the blobs read in output order,       *)
(* followed by the group being built, are the sheets taken so far in        *)
(* original order, each once; at the return they are all the sheets.        *)
C15_SheetsPartitioned ==
    (XlsxSplits /\ xlsx_file.valid /\ sheet_names # <<>>) =>
        /\ \A k \in 1..Len(xlsx_chunks) :
             xlsx_chunks[k].data = "saved" /\ xlsx_chunks[k].sheets # <<>>
        /\ xlsxPc = "loop" =>
             SheetsOf(xlsx_chunks) \o current_sheets = SubSeq(sheet_names, 1, sheet_index)
        /\ xlsxPc = "returned" =>
             /\ SheetsOf(xlsx_chunks) = sheet_names
             /\ Len(SheetsOf(xlsx_chunks)) = Len(xlsx_file.sheets)

(* a returned split of four sheets into two blobs or more, one of several   *)
(* sheets                                                                   *)
C15_Witness ==
    /\ xlsxPc = "returned"
    /\ xlsx_file.len >= TARGET_LIMIT_BYTES
    /\ Len(xlsx_file.sheets) = 4
    /\ Len(xlsx_chunks) >= 2
    /\ \E k \in 1..Len(xlsx_chunks) : Units(xlsx_chunks[k]) > 1

(* C16 as stated: for both splitters, a call on an input shorter than the   *)
(* hard limit ends by returning exactly one blob, the input itself.         *)
C16_SmallInputOneBlob ==
    /\ (pdf_file.len < TARGET_LIMIT_BYTES /\ pdfPc \in {"returned", "raised"}) =>
          pdfPc = "returned" /\ pdf_chunks = <<InputBlob(pdf_file)>>
    /\ (xlsx_file.len < TARGET_LIMIT_BYTES /\ xlsxPc \in {"returned", "raised"}) =>
          xlsxPc = "returned" /\ xlsx_chunks = <<InputWorkbook(xlsx_file)>>

(* C16: an input shorter than the hard limit is returned as exactly one     *)
(* blob, the input itself, by split_pdf always and by split_xlsx when the   *)
(* input opens as a workbook with at least one sheet.                       *)
C16_SmallValidInputOneBlob ==
    /\ (pdf_file.len < TARGET_LIMIT_BYTES /\ pdfPc \in {"returned", "raised"}) =>
          /\ pdfPc = "returned"
          /\ pdf_chunks = <<InputBlob(pdf_file)>>
          /\ pdf_chunks[1].data = "file_bytes" /\ pdf_chunks[1].size = pdf_file.len
    /\ (/\ xlsx_file.len < TARGET_LIMIT_BYTES
        /\ xlsxPc \in {"returned", "raised"}
        /\ xlsx_file.valid
        /\ xlsx_file.sheets # <<>>) =>
          /\ xlsxPc = "returned"
          /\ Len(xlsx_chunks) = 1
          /\ xlsx_chunks[1].data = "file_bytes" /\ xlsx_chunks[1].size = xlsx_file.len

(* a valid workbook of several sheets, shorter than the limit, returned     *)
C16_Witness ==
    /\ xlsxPc = "returned"
    /\ xlsx_file.len < TARGET_LIMIT_BYTES
    /\ xlsx_file.valid
    /\ Len(xlsx_file.sheets) >= 2
    /\ Len(xlsx_chunks) = 1

(* C17: split_xlsx on an input that cannot be opened as a workbook, of any  *)
(* length, raises XLSXSplitError at its first step and returns no blob.     *)
C17_CorruptWorkbookRaises ==
    (~xlsx_file.valid /\ xlsxPc # "idle") =>
        /\ xlsxPc \in {"called", "raised"}
        /\ xlsx_chunks = <<>>
        /\ xlsxPc = "raised" => xlsx_log = <<Logged("exception", 0)>>

(* a corrupt input shorter than the hard limit was rejected *)
C17_Witness ==
    /\ ~xlsx_file.valid
    /\ xlsx_file.len < TARGET_LIMIT_BYTES
    /\ xlsxPc = "raised"


(* the batch the loop of split_pdf is about to try *)
TentativeEnd == Min(current_page + batch_size, total_pages)
TentativeSize == SavedPdfSize(current_page, TentativeEnd)
Trying == pdfPc = "loop" /\ current_page < total_pages

(* C25: the loop of split_pdf ends for every input: a batch size above 1   *)
(* whose batch is over the limit becomes strictly smaller, a batch size of *)
(* 1 has its batch appended, every appended batch moves current_page       *)
(* forward, and so current_page reaches total_pages and split_pdf returns. *)
C25_SplitPdfTerminates ==
    /\ [][Trying /\ batch_size > 1 /\ TentativeSize > TARGET_LIMIT_BYTES =>
            batch_size' < batch_size /\ batch_size' >= 1]_vars
    /\ [][Trying /\ batch_size = 1 => Len(pdf_chunks') = Len(pdf_chunks) + 1]_vars
    /\ [][Len(pdf_chunks') > Len(pdf_chunks) /\ pdfPc = "loop" =>
            current_page' > current_page /\ current_page' <= total_pages]_vars
    /\ (pdfPc = "loop") ~> (current_page = total_pages /\ pdfPc = "returned")
    /\ (pdfPc = "called") ~> (pdfPc \in {"returned", "raised"})

(* a split returned whose first batch of two pages or more was over the    *)
(* limit and shrank to a single page, itself over the limit                *)
C25_Witness ==
    /\ pdfPc = "returned"
    /\ total_pages >= 3
    /\ InitialBatchSize >= 2
    /\ Len(pdf_chunks) >= 2
    /\ pdf_chunks[1].to - pdf_chunks[1].from = 1
    /\ pdf_chunks[1].size > TARGET_LIMIT_BYTES

(* C26: when split_pdf appends a batch saved in s bytes, the next batch    *)
(* size is the current one times 1.5 (rounded down) if s is less than half *)
(* of the soft target, else the current one times 0.9 (rounded down, at    *)
(* least 1) if s is more than 95% of the soft target, else the current one.*)
C26_BatchSizeAfterAccept ==
    [][pdfPc = "loop" /\ Len(pdf_chunks') = Len(pdf_chunks) + 1 =>
        LET s == pdf_chunks'[Len(pdf_chunks')].size
        IN  batch_size' =
                IF 2 * s < SOFT_TARGET_BYTES THEN (3 * batch_size) \div 2
                ELSE IF 100 * s > 95 * SOFT_TARGET_BYTES
                     THEN (IF (9 * batch_size) \div 10 >= 1 THEN (9 * batch_size) \div 10 ELSE 1)
                     ELSE batch_size]_vars

(* a first batch of 60 light pages was appended and the batch grew to 90 *)
C26_Witness ==
    /\ pdfPc = "loop"
    /\ Len(pdf_chunks) = 1
    /\ InitialBatchSize = 60
    /\ 2 * pdf_chunks[1].size < SOFT_TARGET_BYTES
    /\ batch_size = 90

(* a first batch of two pages just under the limit shrank the batch *)
C26_WitnessShrunk ==
    /\ pdfPc = "loop"
    /\ Len(pdf_chunks) = 1
    /\ InitialBatchSize = 2
    /\ pdf_chunks[1].to = 2
    /\ 100 * pdf_chunks[1].size > 95 * SOFT_TARGET_BYTES
    /\ batch_size = 1

(* a second batch of 90 pages between the two thresholds left it at 90 *)
C26_WitnessUnchanged ==
    /\ Len(pdf_chunks) = 2
    /\ pdf_chunks[2].to - pdf_chunks[2].from = 90
    /\ 2 * pdf_chunks[2].size >= SOFT_TARGET_BYTES
    /\ 100 * pdf_chunks[2].size <= 95 * SOFT_TARGET_BYTES
    /\ batch_size = 90

(* C27: when a tentative batch of more than one page is saved above the   *)
(* limit, split_pdf appends nothing and keeps current_page; it only sets   *)
(* batch_size, to the larger of 1 and 0.7 times batch_size rounded down,   *)
(* which is strictly less than batch_size, and tries the same page again.  *)
C27_OvershootReducesByFloor ==
    [][Trying /\ TentativeEnd - current_page > 1 /\ TentativeSize > TARGET_LIMIT_BYTES =>
        /\ pdf_chunks' = pdf_chunks
        /\ current_page' = current_page
        /\ pdfPc' = "loop"
        /\ pdf_log' = pdf_log
        /\ batch_size' = (IF (7 * batch_size) \div 10 >= 1 THEN (7 * batch_size) \div 10 ELSE 1)
        /\ batch_size' < batch_size]_vars

PdfEnded == pdfPc \in {"returned", "raised"}

(* C28 as stated: for every input of zero pages split_pdf returns no blob. *)
C28_ZeroPagesNoBlob ==
    PdfEnded /\ pdf_file.valid /\ total_pages = 0 =>
        pdfPc = "returned" /\ pdf_chunks = <<>>

(* C28, amended: for every input of zero pages that is not below the limit *)
(* split_pdf returns no blob and logs nothing; an input of zero pages      *)
(* below the limit is returned as the single blob, never opened.           *)
C28_ZeroPagesAtLimitNoBlob ==
    PdfEnded /\ pdf_file.valid /\ total_pages = 0 =>
        /\ pdfPc = "returned"
        /\ pdf_log = <<>>
        /\ pdf_file.len >= TARGET_LIMIT_BYTES => pdf_chunks = <<>>
        /\ pdf_file.len < TARGET_LIMIT_BYTES =>
             pdf_chunks = <<[data |-> "file_bytes", from |-> 0, to |-> 0, size |-> pdf_file.len]>>

(* an input of exactly the limit and of zero pages returned no blob *)
C28_Witness ==
    /\ pdfPc = "returned"
    /\ pdf_file.valid
    /\ pdf_file.len = TARGET_LIMIT_BYTES
    /\ total_pages = 0
    /\ pdf_chunks = <<>>

(* the estimated size of a group: each sheet saved in a workbook of its own *)
RECURSIVE Estimate(_)
Estimate(names) ==
    IF names = <<>> THEN 0
    ELSE SavedXlsxSize(<<Head(names)>>) + Estimate(Tail(names))

(* more than 90% of 4 MiB *)
OverSoftTarget(size) == 10 * size > 9 * TARGET_LIMIT_BYTES

(* the groups of sheets of the blobs *)
Groups(blobs) == [j \in 1..Len(blobs) |-> blobs[j].sheets]

(* C29: when split_xlsx splits, it takes the sheets in their order; a new  *)
(* group starts at a sheet exactly when the current group is not empty and *)
(* its estimated size plus the sheet's is more than 90% of 4 MiB, and then *)
(* the current group is appended as a blob; otherwise the sheet joins the  *)
(* current group; the last group is appended at the end.  Five sheets such *)
(* that 1,2 fit, 3,4,5 fit and 1,2,3 do not give the blobs {1,2}, {3,4,5}. *)
C29_GreedyGroups ==
    /\ [][xlsxPc = "loop" /\ sheet_index < Len(sheet_names) /\ sheet_index' # sheet_index =>
            LET sheet_name == sheet_names[sheet_index + 1]
            IN  /\ sheet_index' = sheet_index + 1
                /\ IF current_sheets # <<>>
                        /\ OverSoftTarget(Estimate(current_sheets) + Estimate(<<sheet_name>>))
                   THEN /\ xlsx_chunks' = Append(xlsx_chunks,
                                [data |-> "saved", sheets |-> current_sheets,
                                 size |-> SavedXlsxSize(current_sheets)])
                        /\ current_sheets' = <<sheet_name>>
                   ELSE /\ xlsx_chunks' = xlsx_chunks
                        /\ current_sheets' = Append(current_sheets, sheet_name)]_vars
    /\ [][xlsxPc = "loop" /\ xlsxPc' = "returned" =>
            /\ sheet_index = Len(sheet_names)
            /\ current_sheets # <<>>
            /\ xlsx_chunks' = Append(xlsx_chunks,
                    [data |-> "saved", sheets |-> current_sheets,
                     size |-> SavedXlsxSize(current_sheets)])
            /\ SheetsOf(xlsx_chunks') = sheet_names]_vars
    /\ [](/\ xlsxPc = "returned"
          /\ xlsx_file.valid
          /\ xlsx_file.len >= TARGET_LIMIT_BYTES
          /\ Len(sheet_names) = 5
          /\ ~OverSoftTarget(Estimate(<<1, 2>>))
          /\ ~OverSoftTarget(Estimate(<<3, 4, 5>>))
          /\ OverSoftTarget(Estimate(<<1, 2, 3>>))
          => Groups(xlsx_chunks) = << <<1, 2>>, <<3, 4, 5>> >>)

(* five sheets of which 1,2,3 do not fit together were split in two blobs *)
C29_Witness ==
    /\ xlsxPc = "returned"
    /\ Len(sheet_names) = 5
    /\ OverSoftTarget(Estimate(<<1, 2, 3>>))
    /\ Len(xlsx_chunks) = 2
    /\ xlsx_chunks[1].sheets = <<1, 2>>
    /\ xlsx_chunks[2].sheets = <<3, 4, 5>>
    /\ xlsx_chunks[2].data = "saved"

(* C30: in the loop of split_pdf batch_size is at least 1; once it is 1 it *)
(* stays 1 to the end of the split (1 times 1.5 rounded down is 1), and    *)
(* every blob appended from then on holds one page.                        *)
C30_BatchSizeOneStays ==
    /\ [](pdfPc = "loop" => batch_size >= 1)
    /\ [][pdfPc = "loop" /\ batch_size = 1 => batch_size' = 1]_vars
    /\ [][pdfPc = "loop" /\ batch_size = 1 /\ Len(pdf_chunks') > Len(pdf_chunks) =>
            LET blob == pdf_chunks'[Len(pdf_chunks')]
            IN  /\ Len(pdf_chunks') = Len(pdf_chunks) + 1
                /\ blob.from = current_page
                /\ blob.to = current_page + 1
                /\ current_page' = current_page + 1]_vars

(* a split that began with batches of several pages came down to 1 page,   *)
(* appended two blobs of one page, the last small enough to grow the batch, *)
(* and returned with batch_size still 1                                     *)
C30_Witness ==
    /\ pdfPc = "returned"
    /\ InitialBatchSize >= 2
    /\ batch_size = 1
    /\ Len(pdf_chunks) >= 3
    /\ LET n == Len(pdf_chunks)
       IN  /\ pdf_chunks[n].to - pdf_chunks[n].from = 1
           /\ pdf_chunks[n - 1].to - pdf_chunks[n - 1].from = 1
           /\ 2 * pdf_chunks[n - 1].size < SOFT_TARGET_BYTES

-----------------------------------------------------------------------------
(***************************************************************************)
(* _process_file down to the splitter: the bytes read are sent whole on    *)
(* the direct path, or _process_big gives them to the split of the handler *)
(* get_handler returns for the file's suffix, and the splitter runs.       *)
(***************************************************************************)
ReadSizes ==
    {TARGET_LIMIT_BYTES - 1, TARGET_LIMIT_BYTES, 4250000, BYTES_THRESHOLD, BYTES_THRESHOLD + 1}

ReadSuffixes == {<<".", "p", "d", "f">>, <<".", "X", "l", "s", "x">>, <<".", "x", "l", "s">>}

(* chunks = handler.split(file_bytes), file_bytes of size bytes *)
HandsOver(h, size) ==
    /\ handler' = h
    /\ IF h.split = "split_pdf"
       THEN /\ pdf_file' \in [len : {size}, valid : BOOLEAN,
                              pages : SeqsUpTo(PageSizes, MaxPages)]
            /\ pdfPc' = "called"
            /\ handlerPc' = "split_pdf"
            /\ UNCHANGED <<current_page, batch_size, pdf_chunks, pdf_log, xlsxVars,
                           file_bytes, handler_chunks>>
       ELSE IF h.split = "split_xlsx"
       THEN /\ xlsx_file' \in [len : {size}, valid : BOOLEAN,
                               sheets : SeqsUpTo(SheetSizes, MaxSheets)]
            /\ xlsxPc' = "called"
            /\ handlerPc' = "split_xlsx"
            /\ UNCHANGED <<sheet_index, current_sheets, current_size_estimate, xlsx_chunks,
                           xlsx_log, pdfVars, file_bytes, handler_chunks>>
       ELSE \E b \in Blobs :
            /\ file_bytes' = b
            /\ handler_chunks' = <<b>>
            /\ handlerPc' = "split"
            /\ UNCHANGED <<pdfVars, xlsxVars>>

_process_file_split(f) ==
    /\ filePc[f] = "not_started"
    /\ pdfPc = "idle" /\ xlsxPc = "idle" /\ handlerPc = "idle"
    /\ \E size \in ReadSizes, suffix \in ReadSuffixes :
        /\ fileSize' = [fileSize EXCEPT ![f] = size]
        /\ IF UsesProcessBig(size)
           THEN /\ path' = [path EXCEPT ![f] = Append(@, "chunked")]
                /\ FileGoes(f, "split")
                /\ file_path' = [suffix |-> suffix]
                /\ HandsOver(get_handler([suffix |-> suffix]), size)
                /\ UNCHANGED <<fileTrace, gathered, context, chunkVars, logVars>>
           ELSE /\ _process(f)
                /\ UNCHANGED splitVars
    /\ UNCHANGED <<cfgVars, summaryContent, callTrace, output, collected, streamed, envVars>>

InitRead == NoCall /\ NoSplit

NextRead ==
    \/ \E f \in Files : _process_file_split(f)
    \/ \E f \in Files : _process_stream_end(f) /\ UNCHANGED splitVars
    \/ \E f \in Files : _process_stream_error(f) /\ UNCHANGED splitVars
    \/ split_pdf_call
    \/ split_pdf_accept
    \/ split_pdf_overshoot
    \/ split_pdf_return
    \/ split_xlsx_call
    \/ split_xlsx_flush
    \/ split_xlsx_add
    \/ split_xlsx_return

(* One file read by _process_file, and the splitter it is given to *)
SpecRead == InitRead /\ [][NextRead]_vars

(* C32: BYTES_THRESHOLD is above TARGET_LIMIT_BYTES, so a splitter called   *)
(* by _process_big is given more bytes than TARGET_LIMIT_BYTES and never    *)
(* returns its input as the single blob of the fast path; and a file of     *)
(* TARGET_LIMIT_BYTES to BYTES_THRESHOLD bytes goes the direct path, whole, *)
(* no splitter called: one blob that is not under TARGET_LIMIT_BYTES.       *)
C32_ThresholdAboveLimit ==
    /\ BYTES_THRESHOLD > TARGET_LIMIT_BYTES
    /\ pdfPc # "idle" =>
         /\ path[1] = <<"chunked">>
         /\ pdf_file.len = fileSize[1]
         /\ pdf_file.len > TARGET_LIMIT_BYTES
         /\ \A j \in 1..Len(pdf_chunks) : pdf_chunks[j].data # "file_bytes"
    /\ xlsxPc # "idle" =>
         /\ path[1] = <<"chunked">>
         /\ xlsx_file.len = fileSize[1]
         /\ xlsx_file.len > TARGET_LIMIT_BYTES
         /\ \A j \in 1..Len(xlsx_chunks) : xlsx_chunks[j].data # "file_bytes"
    /\ \A f \in Files :
         fileSize[f] >= TARGET_LIMIT_BYTES /\ fileSize[f] <= BYTES_THRESHOLD =>
            /\ path[f] = <<"direct">>
            /\ pdfPc = "idle" /\ xlsxPc = "idle" /\ handlerPc = "idle"
            /\ Count(notified, Event("processing_start", f, 0, 1, NoErr)) = 1

(* a PDF one byte over the threshold was given to split_pdf, which split it *)
C32_Witness ==
    /\ fileSize[1] = BYTES_THRESHOLD + 1
    /\ pdfPc = "returned"
    /\ pdf_file.len = BYTES_THRESHOLD + 1
    /\ Len(pdf_chunks) >= 2

(* a file of exactly TARGET_LIMIT_BYTES bytes was sent whole *)
C32_WitnessDirect ==
    /\ fileSize[1] = TARGET_LIMIT_BYTES
    /\ path[1] = <<"direct">>
    /\ filePc[1] = "completed"
    /\ pdfPc = "idle" /\ xlsxPc = "idle"

-----------------------------------------------------------------------------
(***************************************************************************)
(* Properties of get_handler                                               *)
(***************************************************************************)
SameLetter(a, b) == a = b \/ <<a, b>> \in CasePairs \/ <<b, a>> \in CasePairs
SameIgnoringCase(s, t) ==
    /\ Len(s) = Len(t)
    /\ \A j \in 1..Len(s) : SameLetter(s[j], t[j])
IsLowerCased(s) == \A j \in 1..Len(s) : \A p \in CasePairs : s[j] # p[2]
HandlerReturned == handlerPc \in {"returned", "split", "split_pdf", "split_xlsx"}

(* C21: get_handler returns a handler for every extension: the PDF handler *)
(* with format "pdf" for .pdf and the XLSX handler with format "xlsx" for  *)
(* .xlsx, whatever the case of the letters; for every other extension the  *)
(* generic handler, whose format is the extension without its dot in lower *)
(* case and whose split returns the list holding just the input.           *)
C21_HandlerForEveryExtension ==
    LET sfx == file_path.suffix
        ext == SubSeq(sfx, 2, Len(sfx))
    IN  /\ handlerPc = "called" => ENABLED get_handler_call
        /\ HandlerReturned =>
            /\ SameIgnoringCase(sfx, <<".", "p", "d", "f">>) =>
                /\ handler.class = "PDFHandler"
                /\ handler.format = <<"p", "d", "f">>
                /\ handler.split = "split_pdf"
            /\ SameIgnoringCase(sfx, <<".", "x", "l", "s", "x">>) =>
                /\ handler.class = "XLSXHandler"
                /\ handler.format = <<"x", "l", "s", "x">>
                /\ handler.split = "split_xlsx"
            /\ (~SameIgnoringCase(sfx, <<".", "p", "d", "f">>)
                    /\ ~SameIgnoringCase(sfx, <<".", "x", "l", "s", "x">>)) =>
                /\ handler.class = "GenericHandler"
                /\ SameIgnoringCase(handler.format, ext)
                /\ IsLowerCased(handler.format)
                /\ handlerPc # "returned" =>
                    /\ handlerPc = "split"
                    /\ file_bytes \in Blobs
                    /\ handler_chunks = <<file_bytes>>

(* a mixed-case .xlsx got the XLSX handler *)
C21_Witness ==
    /\ file_path.suffix = <<".", "X", "l", "s", "X">>
    /\ handlerPc = "split_xlsx"
    /\ handler = XLSXHandler

(* an upper-case .XLS got the generic handler of format "xls", whose split *)
(* returned the input alone                                                *)
C21_WitnessGeneric ==
    /\ file_path.suffix = <<".", "X", "l", "s">>
    /\ handlerPc = "split"
    /\ handler.format = <<"x", "l", "s">>
    /\ handler_chunks = <<<<80, 75>>>>

====
